---- MODULE Spec2Model ----
(***************************************************************************)
(* A model of the file-to-api backend: the name sanitizer and the type     *)
(* inference of engine/schema.py, the column clean-up of engine/parser.py, *)
(* the API keys of auth_keys/models.py, the dynamic tables of              *)
(* engine/table_builder.py, the registries of engine/api_generator.py and  *)
(* engine/router.py, the pipeline of engine/processor.py and the views of  *)
(* core/views.py.                                                          *)
(*                                                                         *)
(* Strings that the code takes apart (column labels, API keys) are         *)
(* sequences of one-character strings.  Cell values are whole tokens.      *)
(***************************************************************************)
EXTENDS Integers, Sequences, FiniteSets, TLC

VARIABLES
    pin,        \* input of the pure function under study (label, label list, column)
    pout,       \* its results, in the order they were computed
    apiKeys,    \* the APIKey table: a set of records
    issued,     \* what APIKey.generate returned: [id, full_key] records
    lastAuth,   \* the last APIKey.validate_key call: [key, result]
    nextId,     \* the number of the next Dataset id (uuid4) to be drawn
    datasets,   \* the Dataset table: id -> record
    datasetColumns, \* the DatasetColumn table: dataset id -> descriptors by position
    tables,     \* the dynamic tables of the database: table name -> table
    apiRegistry, \* api_generator._API_REGISTRY: slug -> view set
    registered, \* router._registered_datasets: a set of slugs
    routes,     \* dynamic_router.registry: the view sets in registration order
    run,        \* the process_uploaded_file call in progress, with its locals
    resp,       \* the response to the last request
    lastRun,    \* dataset id -> how its last finished pipeline run ended
    faults      \* failures of the environment so far

pureVars == <<pin, pout>>
keyVars == <<apiKeys, issued, lastAuth>>
regVars == <<apiRegistry, registered, routes>>
mainVars == <<nextId, datasets, datasetColumns, tables, apiRegistry, registered, routes,
              run, resp, lastRun, faults>>

vars == <<pin, pout, apiKeys, issued, lastAuth, nextId, datasets,
          datasetColumns, tables,
          apiRegistry, registered, routes, run, resp, lastRun, faults>>

-----------------------------------------------------------------------------
(* Bounds of the model.                                                    *)

MaxLabelLen == 3    \* length of the enumerated part of a label
MaxCols == 3        \* columns of one file in the label-list study
MaxRun == 20        \* length of the run of one token in a column
MaxMinor == 2       \* tokens of a column after the run
MaxKeys == 2        \* API keys ever generated
PrefixLen == 1      \* characters of a key's prefix (token_hex)
KeyPartLen == 2     \* characters of a key's random part (token_urlsafe)
MAX_ROWS == 3       \* settings.MAX_ROWS as configured
MAX_COLUMNS == 2    \* settings.MAX_COLUMNS as configured
MAX_UPLOAD_SIZE == 2 \* settings.MAX_UPLOAD_SIZE as configured, in size units
MaxUploads == 1     \* datasets ever uploaded
MaxRuns == 2        \* pipeline runs on one dataset
MaxFaults == 1      \* failures of the environment in one behaviour

-----------------------------------------------------------------------------
(* Characters and strings.                                                 *)

UpperChars == <<"A","B","C","D","E","F","G","H","I","J","K","L","M",
                "N","O","P","Q","R","S","T","U","V","W","X","Y","Z">>
LowerChars == <<"a","b","c","d","e","f","g","h","i","j","k","l","m",
                "n","o","p","q","r","s","t","u","v","w","x","y","z">>
DigitChars == <<"0","1","2","3","4","5","6","7","8","9">>

Range(s) == {s[i] : i \in 1..Len(s)}

SetMin(S) == CHOOSE x \in S : \A y \in S : x <= y
SetMax(S) == CHOOSE x \in S : \A y \in S : x >= y

UpperSet == Range(UpperChars)

LowerOf == [c \in UpperSet |-> LowerChars[CHOOSE i \in 1..26 : UpperChars[i] = c]]

\* str.lower() on one character
ToLower(c) == IF c \in UpperSet THEN LowerOf[c] ELSE c

Lower(s) == [i \in 1..Len(s) |-> ToLower(s[i])]

\* str.strip(chars): drop the characters of `chars` from both ends
StripChars(s, chars) ==
    LET keep == {i \in 1..Len(s) : s[i] \notin chars}
    IN  IF keep = {} THEN <<>>
        ELSE SubSeq(s, CHOOSE i \in keep : \A j \in 1..(i - 1) : j \notin keep,
                       CHOOSE i \in keep : \A j \in (i + 1)..Len(s) : j \notin keep)

Whitespace == {" "}

Strip(s) == StripChars(s, Whitespace)

\* the decimal rendering of a natural number, as str(i) gives it
RECURSIVE ItoA(_)
ItoA(n) == IF n < 10 THEN <<DigitChars[n + 1]>>
           ELSE ItoA(n \div 10) \o <<DigitChars[(n % 10) + 1]>>

\* n copies of the character c
Repeat(c, n) == [i \in 1..n |-> c]

\* all strings over `alphabet` of length at most n
StringsUpTo(alphabet, n) == UNION {[1..k -> alphabet] : k \in 0..n}

-----------------------------------------------------------------------------
(* engine/schema.py: the name sanitizer.                                   *)

RESERVED_WORDS == {
    <<"i","d">>, <<"p","k">>, <<"c","l","a","s","s">>, <<"d","e","f">>,
    <<"r","e","t","u","r","n">>, <<"i","f">>, <<"e","l","s","e">>, <<"f","o","r">>,
    <<"w","h","i","l","e">>, <<"i","m","p","o","r","t">>, <<"f","r","o","m">>,
    <<"a","s">>, <<"t","r","y">>, <<"e","x","c","e","p","t">>,
    <<"f","i","n","a","l","l","y">>, <<"w","i","t","h">>, <<"l","a","m","b","d","a">>,
    <<"y","i","e","l","d">>, <<"g","l","o","b","a","l">>,
    <<"n","o","n","l","o","c","a","l">>, <<"a","s","s","e","r","t">>,
    <<"p","a","s","s">>, <<"b","r","e","a","k">>, <<"c","o","n","t","i","n","u","e">>,
    <<"r","a","i","s","e">>, <<"d","e","l">>, <<"i","n">>, <<"i","s">>,
    <<"n","o","t">>, <<"a","n","d">>, <<"o","r">>, <<"t","r","u","e">>,
    <<"f","a","l","s","e">>, <<"n","o","n","e">>, <<"s","e","l","f">>, <<"c","l","s">> }

\* the truncation limit of sanitize_field_name
TRUNCATE_LEN == 63

\* the characters the pattern [^a-z0-9_] leaves alone
NameChars == Range(LowerChars) \cup Range(DigitChars) \cup {"_"}

\* re.sub(r'[^a-z0-9_]', '_', name)
ReplaceSpecial(s) == [i \in 1..Len(s) |-> IF s[i] \in NameChars THEN s[i] ELSE "_"]

\* re.sub(r'_+', '_', name)
\* each character with whether it is an underscore that follows an
\* underscore
CollapseMarks(s) == [i \in 1..Len(s) |-> <<s[i], s[i] = "_" /\ i > 1 /\ s[i - 1] = "_">>]

CollapseUnderscores(s) ==
    LET kept == SelectSeq(CollapseMarks(s), LAMBDA m : ~m[2])
    IN  [k \in 1..Len(kept) |-> kept[k][1]]

\* if len(name) > 63: name = name[:63]
Truncate(s) == IF Len(s) > TRUNCATE_LEN THEN SubSeq(s, 1, TRUNCATE_LEN) ELSE s

\* the sanitizer without the prefix for reserved words
sanitize_field_name_unprefixed(name) ==
    LET n1 == Lower(Strip(name))
        n2 == ReplaceSpecial(n1)
        n3 == CollapseUnderscores(n2)
        n4 == StripChars(n3, {"_"})
        n5 == IF n4 = <<>> THEN <<"c","o","l","u","m","n">> ELSE n4
        n6 == IF n5[1] \in Range(DigitChars) THEN <<"c","o","l","_">> \o n5 ELSE n5
    IN  Truncate(n6)

sanitize_field_name(name) ==
    LET n1 == Lower(Strip(name))
        n2 == ReplaceSpecial(n1)
        n3 == CollapseUnderscores(n2)
        n4 == StripChars(n3, {"_"})
        n5 == IF n4 = <<>> THEN <<"c","o","l","u","m","n">> ELSE n4
        n6 == IF n5[1] \in Range(DigitChars) THEN <<"c","o","l","_">> \o n5 ELSE n5
        n7 == IF n6 \in RESERVED_WORDS THEN <<"f","i","e","l","d","_">> \o n6 ELSE n6
    IN  Truncate(n7)

-----------------------------------------------------------------------------
(* engine/parser.py: the column clean-up of FileParser._validate_dataframe *)
(* (lines 89-107), on the list of column labels.                           *)

\* str(col).strip() if str(col).strip() else f'column_{i}', i counted from 0
CleanLabel(col, i) ==
    IF Strip(col) # <<>> THEN Strip(col)
    ELSE <<"c","o","l","u","m","n","_">> \o ItoA(i)

\* how many of cols[1..i-1] equal cols[i]: the value seen[col] reaches at i
SeenBefore(cols, i) == Cardinality({j \in 1..(i - 1) : cols[j] = cols[i]})

\* the renaming pass over duplicate labels
RenameDuplicates(cols) ==
    [i \in 1..Len(cols) |->
        IF SeenBefore(cols, i) > 0
        THEN cols[i] \o <<"_">> \o ItoA(SeenBefore(cols, i))
        ELSE cols[i]]

validate_dataframe_columns(labels) ==
    LET cols == [i \in 1..Len(labels) |-> CleanLabel(labels[i], i - 1)]
    IN  IF Len(cols) # Cardinality(Range(cols)) THEN RenameDuplicates(cols) ELSE cols

\* the field_name of every column, as detect_schema assigns them
schema_field_names(cols) == [i \in 1..Len(cols) |-> sanitize_field_name(cols[i])]

-----------------------------------------------------------------------------
(* Cell values.  A cell of an untyped (object) column is a token, a string *)
(* of characters; an absent cell is NA.  The two pandas parsers the        *)
(* detectors call are modelled on the tokens the model uses: to_numeric    *)
(* accepts digits with an optional fraction, to_datetime accepts           *)
(* YYYYMMDD, YYYY-MM-DD and YYYY-MM-DD HH:MM.                              *)

NA == <<"<NA>">>

TOK_TRUE  == <<"t","r","u","e">>
TOK_YES   == <<"y","e","s">>
TOK_YES_U == <<" ","Y","E","S">>
TOK_ONE   == <<"1">>
TOK_SEVEN == <<"7">>
TOK_FRAC  == <<"2",".","5">>
TOK_YMD   == <<"2","0","2","3","0","1","0","1">>
TOK_DATE  == <<"2","0","2","3","-","0","1","-","0","1">>
TOK_DTIME == <<"2","0","2","3","-","0","1","-","0","1"," ","1","0",":","3","0">>
TOK_ABC   == <<"a","b","c">>
TOK_BOB   == <<"b","o","b">>

DigitSet == Range(DigitChars)

AllDigits(s) == s # <<>> /\ \A i \in 1..Len(s) : s[i] \in DigitSet

\* the value of a digit string
RECURSIVE AtoI(_)
AtoI(s) == IF s = <<>> THEN 0
           ELSE 10 * AtoI(SubSeq(s, 1, Len(s) - 1))
                + (CHOOSE d \in 0..9 : DigitChars[d + 1] = s[Len(s)])

DotAt(s) == {i \in 1..Len(s) : s[i] = "."}

\* the digits s without its trailing zeros
RECURSIVE DropTrailingZeros(_)
DropTrailingZeros(s) ==
    IF s # <<>> /\ s[Len(s)] = "0" THEN DropTrailingZeros(SubSeq(s, 1, Len(s) - 1)) ELSE s

\* pd.to_numeric(value, errors='coerce') on one token: ok is FALSE for NaN;
\* whole is the integral part, frac the digits of the fraction without
\* trailing zeros, fraczero tells whether the fraction is zero
ToNumeric(tok) ==
    IF AllDigits(tok)
    THEN [ok |-> TRUE, whole |-> AtoI(tok), frac |-> <<>>, fraczero |-> TRUE]
    ELSE IF /\ Cardinality(DotAt(tok)) = 1
            /\ AllDigits(SubSeq(tok, 1, (CHOOSE i \in DotAt(tok) : TRUE) - 1))
            /\ AllDigits(SubSeq(tok, (CHOOSE i \in DotAt(tok) : TRUE) + 1, Len(tok)))
         THEN LET d == CHOOSE i \in DotAt(tok) : TRUE
                  f == DropTrailingZeros(SubSeq(tok, d + 1, Len(tok)))
              IN  [ok |-> TRUE, whole |-> AtoI(SubSeq(tok, 1, d - 1)),
                   frac |-> f, fraczero |-> f = <<>>]
         ELSE [ok |-> FALSE, whole |-> 0, frac |-> <<>>, fraczero |-> TRUE]

IsDashedDate(s) ==
    /\ Len(s) = 10 /\ s[5] = "-" /\ s[8] = "-"
    /\ \A i \in {1, 2, 3, 4, 6, 7, 9, 10} : s[i] \in DigitSet

IsClock(s) ==
    /\ Len(s) = 5 /\ s[3] = ":"
    /\ \A i \in {1, 2, 4, 5} : s[i] \in DigitSet

\* pd.to_datetime(value, errors='coerce') on one token: ok is FALSE for NaT;
\* iso is the isoformat() of the timestamp, midnight tells whether hour,
\* minute and second are all zero
ToDatetime(tok) ==
    LET t00 == <<"T","0","0",":","0","0",":","0","0">>
    IN  IF AllDigits(tok) /\ Len(tok) = 8
        THEN [ok |-> TRUE, midnight |-> TRUE,
              iso |-> SubSeq(tok, 1, 4) \o <<"-">> \o SubSeq(tok, 5, 6) \o <<"-">>
                      \o SubSeq(tok, 7, 8) \o t00]
        ELSE IF IsDashedDate(tok)
        THEN [ok |-> TRUE, midnight |-> TRUE, iso |-> tok \o t00]
        ELSE IF Len(tok) = 16 /\ IsDashedDate(SubSeq(tok, 1, 10)) /\ tok[11] = " "
                /\ IsClock(SubSeq(tok, 12, 16))
        THEN [ok |-> TRUE,
              midnight |-> SubSeq(tok, 12, 16) = <<"0","0",":","0","0">>,
              iso |-> SubSeq(tok, 1, 10) \o <<"T">> \o SubSeq(tok, 12, 16)
                      \o <<":","0","0">>]
        ELSE [ok |-> FALSE, midnight |-> FALSE, iso |-> <<>>]

-----------------------------------------------------------------------------
(* engine/schema.py: the type detectors.  A series is a sequence of        *)
(* non-null tokens.  The rates are compared in percent.                    *)

boolean_values == {
    <<"t","r","u","e">>, <<"f","a","l","s","e">>, <<"y","e","s">>, <<"n","o">>,
    <<"1">>, <<"0">>, <<"t">>, <<"f">>, <<"y">>, <<"n">>, <<"1",".","0">>,
    <<"0",".","0">>, <<"T","r","u","e">>, <<"F","a","l","s","e">>,
    <<"T","R","U","E">>, <<"F","A","L","S","E">>, <<"Y","E","S">>, <<"N","O">> }

INTEGER_THRESHOLD_PCT == 95
FLOAT_THRESHOLD_PCT == 95
DATE_THRESHOLD_PCT == 90
DATETIME_THRESHOLD_PCT == 90
DATE_MIDNIGHT_PCT == 95
CHARFIELD_MAX == 255
CHARFIELD_CAP == 500

\* series.astype(str).str.lower().str.strip() is a subset of the vocabulary
is_boolean_column(series) ==
    \A i \in 1..Len(series) : Strip(Lower(series[i])) \in boolean_values

NumericOk(tok) == ToNumeric(tok).ok
DatetimeOk(tok) == ToDatetime(tok).ok

\* converted.notna().sum() after to_numeric and after to_datetime
CountNumeric(series) == Cardinality({i \in 1..Len(series) : NumericOk(series[i])})
CountDatetime(series) == Cardinality({i \in 1..Len(series) : DatetimeOk(series[i])})

is_integer_column(series) ==
    /\ ~(CountNumeric(series) * 100 < INTEGER_THRESHOLD_PCT * Len(series))
    /\ \A i \in 1..Len(series) : NumericOk(series[i]) => ToNumeric(series[i]).fraczero

is_float_column(series) ==
    CountNumeric(series) * 100 >= FLOAT_THRESHOLD_PCT * Len(series)

is_date_column(series) ==
    LET valid == CountDatetime(series)
        midnight == Cardinality({i \in 1..Len(series) :
                        DatetimeOk(series[i]) /\ ToDatetime(series[i]).midnight})
    IN  /\ ~(valid * 100 < DATE_THRESHOLD_PCT * Len(series))
        /\ midnight * 100 > DATE_MIDNIGHT_PCT * valid

is_datetime_column(series) ==
    CountDatetime(series) * 100 >= DATETIME_THRESHOLD_PCT * Len(series)

DTYPE_MAP ==
    [int64 |-> <<"IntegerField", "integer">>, int32 |-> <<"IntegerField", "integer">>,
     float64 |-> <<"FloatField", "float">>, float32 |-> <<"FloatField", "float">>,
     bool |-> <<"BooleanField", "boolean">>,
     datetime64 |-> <<"DateTimeField", "datetime">>]

MaxOf(S) == CHOOSE x \in S : \A y \in S : x >= y

Min2(a, b) == IF a <= b THEN a ELSE b

\* the custom detection of an object column (schema.py lines 133-159); a
\* max_length of None is written 0
InferObject(series) ==
    IF is_boolean_column(series) THEN <<"BooleanField", "boolean", 0>>
    ELSE IF is_datetime_column(series) THEN <<"DateTimeField", "datetime", 0>>
    ELSE IF is_date_column(series) THEN <<"DateField", "date", 0>>
    ELSE IF is_integer_column(series) THEN <<"IntegerField", "integer", 0>>
    ELSE IF is_float_column(series) THEN <<"FloatField", "float", 0>>
    ELSE LET max_length == MaxOf({Len(series[i]) : i \in 1..Len(series)})
         IN  IF max_length <= CHARFIELD_MAX
             THEN <<"CharField", "text", Min2(max_length * 2, CHARFIELD_CAP)>>
             ELSE <<"TextField", "text", 0>>

\* infer_field_type: <<field_type, data_type, max_length>>
infer_field_type(series, dtype) ==
    IF dtype \in DOMAIN DTYPE_MAP THEN <<DTYPE_MAP[dtype][1], DTYPE_MAP[dtype][2], 0>>
    ELSE IF dtype = "object" THEN InferObject(series)
    ELSE <<"TextField", "text", 0>>

-----------------------------------------------------------------------------
(* DataFrames.  A frame is a sequence of columns [label, dtype, values];   *)
(* a cell is <<"na">> (absent), <<"str", token>>, <<"int", n>>,            *)
(* <<"bool", b>>, <<"float", whole, fraction digits>> or <<"ts", iso>>.    *)

NAcell == <<"na">>
StrCell(tok) == <<"str", tok>>
IntCell(n) == <<"int", n>>

IsNA(cell) == cell[1] = "na"

\* str(value), as astype(str), str.len and str() see a cell
StrOf(cell) ==
    CASE cell[1] = "na" -> <<"n","a","n">>
      [] cell[1] = "str" -> cell[2]
      [] cell[1] = "int" -> ItoA(cell[2])
      [] cell[1] = "bool" -> IF cell[2] THEN <<"T","r","u","e">> ELSE <<"F","a","l","s","e">>
      [] cell[1] = "float" -> ItoA(cell[2]) \o <<".">> \o (IF cell[3] = <<>> THEN <<"0">> ELSE cell[3])
      [] cell[1] = "ts" -> cell[2]

NumRows(frame) == IF frame = <<>> THEN 0 ELSE Len(frame[1].values)

\* the indices of s that satisfy keep, in increasing order, as a sequence
RECURSIVE IndexSeq(_, _)
IndexSeq(keep, n) ==
    IF n = 0 THEN <<>>
    ELSE IF n \in keep THEN Append(IndexSeq(keep, n - 1), n) ELSE IndexSeq(keep, n - 1)

\* df.dropna(how='all').dropna(axis=1, how='all')
DropEmpty(frame) ==
    LET rows == {r \in 1..NumRows(frame) : \E c \in 1..Len(frame) : ~IsNA(frame[c].values[r])}
        rowseq == IndexSeq(rows, NumRows(frame))
        cols == {c \in 1..Len(frame) : \E r \in rows : ~IsNA(frame[c].values[r])}
        colseq == IndexSeq(cols, Len(frame))
    IN  [k \in 1..Len(colseq) |->
            [frame[colseq[k]] EXCEPT
                !.values = [j \in 1..Len(rowseq) |-> frame[colseq[k]].values[rowseq[j]]]]]

\* FileParser.parse: [ok, msg, df]; every failure is re-raised as
\* ValueError('Failed to parse file: ...')
ParseFile(file) ==
    LET df == DropEmpty(file.frame)
        fail(m) == [ok |-> FALSE, msg |-> <<"Failed to parse file", m>>, df |-> <<>>]
    IN  IF file.ext \notin {"csv", "xlsx", "xls"} THEN fail("Unsupported file format")
        ELSE IF Len(df) > MAX_COLUMNS THEN fail("Too many columns")
        ELSE IF NumRows(df) > MAX_ROWS THEN fail("Too many rows")
        ELSE IF NumRows(df) = 0 THEN fail("File contains no data rows.")
        ELSE IF Len(df) = 0 THEN fail("File contains no columns.")
        ELSE LET names == validate_dataframe_columns([c \in 1..Len(df) |-> df[c].label])
             IN  [ok |-> TRUE, msg |-> <<>>,
                  df |-> [c \in 1..Len(df) |-> [df[c] EXCEPT !.label = names[c]]]]

-----------------------------------------------------------------------------
(* engine/schema.py: detect_schema and convert_dataframe_types.            *)

UNIQUE_CHECK_MAX_ROWS == 10000
SAMPLE_COUNT == 5

NonNull(values) == SelectSeq(values, LAMBDA v : ~IsNA(v))

Head5(s) == IF Len(s) > SAMPLE_COUNT THEN SubSeq(s, 1, SAMPLE_COUNT) ELSE s

\* the descriptor detect_schema builds for column i (counted from 1) of df
ColumnInfo(df, i) ==
    LET col == df[i]
        non_null == NonNull(col.values)
        series == [k \in 1..Len(non_null) |-> StrOf(non_null[k])]
        t == infer_field_type(series, col.dtype)
    IN  IF Len(non_null) = 0
        THEN [name |-> col.label, field_name |-> sanitize_field_name(col.label),
              field_type |-> "TextField", data_type |-> "text", nullable |-> TRUE,
              unique |-> FALSE, max_length |-> 0, sample_values |-> <<>>,
              position |-> i - 1]
        ELSE [name |-> col.label, field_name |-> sanitize_field_name(col.label),
              field_type |-> t[1], data_type |-> t[2],
              nullable |-> \E k \in 1..Len(col.values) : IsNA(col.values[k]),
              unique |-> /\ NumRows(df) <= UNIQUE_CHECK_MAX_ROWS
                         /\ Cardinality(Range(non_null)) = Len(non_null),
              max_length |-> t[3],
              sample_values |-> Head5([k \in 1..Len(non_null) |->
                                   IF non_null[k][1] = "ts" THEN non_null[k][2]
                                   ELSE StrOf(non_null[k])]),
              position |-> i - 1]

detect_schema(df) == [i \in 1..Len(df) |-> ColumnInfo(df, i)]

TRUTHY == {<<"t","r","u","e">>, <<"y","e","s">>, <<"1">>, <<"t">>, <<"y">>, <<"1",".","0">>}

\* pd.to_numeric(errors='coerce') on a cell
NumericCell(cell) ==
    IF IsNA(cell) THEN NAcell
    ELSE IF cell[1] \in {"int", "float"} THEN cell
    ELSE IF cell[1] = "bool" THEN IntCell(IF cell[2] THEN 1 ELSE 0)
    ELSE LET p == ToNumeric(StrOf(cell))
         IN  IF ~p.ok THEN NAcell
             ELSE IF p.frac = <<>> THEN IntCell(p.whole) ELSE <<"float", p.whole, p.frac>>

\* one cell of convert_dataframe_types, for a column of semantic type data_type
ConvertCell(cell, data_type) ==
    CASE data_type = "boolean" -> <<"bool", Lower(StrOf(cell)) \in TRUTHY>>
      [] data_type = "integer" ->
            LET n == NumericCell(cell) IN IF n[1] = "float" THEN IntCell(n[2]) ELSE n
      [] data_type = "float" -> NumericCell(cell)
      [] data_type \in {"date", "datetime"} ->
            IF IsNA(cell) THEN NAcell
            ELSE IF cell[1] = "ts" THEN cell
            ELSE LET p == ToDatetime(StrOf(cell))
                 IN  IF p.ok THEN <<"ts", p.iso>> ELSE NAcell
      [] OTHER -> cell

\* convert_dataframe_types: the column of each descriptor is converted; df
\* and schema list the same columns in the same order
convert_dataframe_types(df, schema) ==
    [c \in 1..Len(df) |->
        [df[c] EXCEPT !.values =
            [r \in 1..Len(df[c].values) |-> ConvertCell(df[c].values[r], schema[c].data_type)]]]

-----------------------------------------------------------------------------
(* engine/table_builder.py: the dynamic tables.  A stored value is         *)
(* <<"null">>, <<"int", n>>, <<"real", whole, fraction digits>> or         *)
(* <<"text", string>>.  A table is [cols, rows, seq]: the column           *)
(* definitions, the rows [id, vals] and the AUTOINCREMENT counter.         *)

SqlNull == <<"null">>

FIELD_SQL_MAP ==
    [IntegerField |-> "INTEGER", FloatField |-> "REAL", BooleanField |-> "INTEGER",
     DateField |-> "TEXT", DateTimeField |-> "TEXT", CharField |-> "TEXT",
     TextField |-> "TEXT"]

\* convert_value_for_sqlite
convert_value_for_sqlite(value, data_type) ==
    IF IsNA(value) THEN SqlNull
    ELSE CASE data_type = "boolean" ->
                IF value[1] = "bool" THEN <<"int", IF value[2] THEN 1 ELSE 0>>
                ELSE <<"int", IF Strip(Lower(StrOf(value))) \in TRUTHY THEN 1 ELSE 0>>
           [] data_type = "integer" ->
                LET n == NumericCell(value)
                IN  IF IsNA(n) THEN SqlNull ELSE <<"int", n[2]>>
           [] data_type = "float" ->
                LET n == NumericCell(value)
                IN  IF IsNA(n) THEN SqlNull
                    ELSE IF n[1] = "int" THEN <<"real", n[2], <<>>>>
                    ELSE <<"real", n[2], n[3]>>
           [] data_type \in {"date", "datetime"} -> <<"text", StrOf(value)>>
           [] OTHER -> <<"text", StrOf(value)>>

\* the column definitions of CREATE TABLE
ColumnDefs(columns) ==
    [i \in 1..Len(columns) |->
        [field_name |-> columns[i].field_name,
         sql_type |-> IF columns[i].field_type \in DOMAIN FIELD_SQL_MAP
                      THEN FIELD_SQL_MAP[columns[i].field_type] ELSE "TEXT",
         notnull |-> ~columns[i].nullable,
         unique |-> columns[i].unique]]

\* the column names of the statement, the key column included, repeat
DuplicateColumnName(columns) ==
    \/ \E i \in 1..Len(columns) : columns[i].field_name = <<"i","d">>
    \/ \E i, j \in 1..Len(columns) :
          i # j /\ columns[i].field_name = columns[j].field_name

\* a CREATE TABLE that puts a new, empty table in the place of an existing
\* one
create_dynamic_table_replacing(tbls, table_name, columns) ==
    IF DuplicateColumnName(columns)
    THEN [ok |-> FALSE, exc |-> "OperationalError", tables |-> tbls]
    ELSE [ok |-> TRUE, exc |-> "",
          tables |-> (table_name :> [cols |-> ColumnDefs(columns), rows |-> <<>>, seq |-> 0])
                     @@ tbls]

\* create_dynamic_table: CREATE TABLE IF NOT EXISTS; [ok, exc, tables].  The
\* database looks at the columns of the statement only when it creates the
\* table
create_dynamic_table(tbls, table_name, columns) ==
    IF table_name \in DOMAIN tbls THEN [ok |-> TRUE, exc |-> "", tables |-> tbls]
    ELSE IF DuplicateColumnName(columns)
         THEN [ok |-> FALSE, exc |-> "OperationalError", tables |-> tbls]
    ELSE [ok |-> TRUE, exc |-> "",
          tables |-> tbls @@ (table_name :> [cols |-> ColumnDefs(columns), rows |-> <<>>,
                                             seq |-> 0])]

\* drop_dynamic_table: DROP TABLE IF EXISTS
drop_dynamic_table(tbls, table_name) ==
    [t \in DOMAIN tbls \ {table_name} |-> tbls[t]]

ColIndex(table, f) == CHOOSE c \in 1..Len(table.cols) : table.cols[c].field_name = f

HasColumns(table, field_names) ==
    \A i \in 1..Len(field_names) :
        \E c \in 1..Len(table.cols) : table.cols[c].field_name = field_names[i]

\* the stored row of INSERT INTO t (field_names) VALUES (values)
RowFor(table, field_names, values) ==
    [c \in 1..Len(table.cols) |->
        IF \E i \in 1..Len(field_names) : field_names[i] = table.cols[c].field_name
        THEN values[CHOOSE i \in 1..Len(field_names) : field_names[i] = table.cols[c].field_name]
        ELSE SqlNull]

\* a NOT NULL or UNIQUE constraint rejects vals; `except` is the id of the
\* row being replaced, 0 for an insert
Violates(table, vals, except) ==
    \E c \in 1..Len(table.cols) :
        \/ table.cols[c].notnull /\ vals[c] = SqlNull
        \/ /\ table.cols[c].unique
           /\ vals[c] # SqlNull
           /\ \E r \in 1..Len(table.rows) :
                 table.rows[r].id # except /\ table.rows[r].vals[c] = vals[c]

\* one INSERT: [ok, table]
InsertOne(table, field_names, values) ==
    IF ~HasColumns(table, field_names) THEN [ok |-> FALSE, table |-> table]
    ELSE LET vals == RowFor(table, field_names, values)
         IN  IF Violates(table, vals, 0) THEN [ok |-> FALSE, table |-> table]
             ELSE [ok |-> TRUE,
                   table |-> [table EXCEPT !.rows = Append(@, [id |-> table.seq + 1, vals |-> vals]),
                                           !.seq = @ + 1]]

\* the table after the first k of the rows were inserted
TableAfter(table, field_names, rows, k) ==
    [table EXCEPT
        !.rows = @ \o [j \in 1..k |-> [id |-> table.seq + j,
                                       vals |-> RowFor(table, field_names, rows[j])]],
        !.seq = @ + k]

\* the rows that a constraint rejects when the rows before them are in
Rejected(table, field_names, rows) ==
    {i \in 1..Len(rows) :
        Violates(TableAfter(table, field_names, rows, i - 1),
                 RowFor(table, field_names, rows[i]), 0)}

\* cursor.executemany in autocommit mode: the rows before the first
\* rejected one stay in the table
InsertMany(table, field_names, rows) ==
    IF ~HasColumns(table, field_names) THEN [ok |-> FALSE, table |-> table]
    ELSE LET bad == Rejected(table, field_names, rows)
         IN  IF bad = {} THEN [ok |-> TRUE,
                               table |-> TableAfter(table, field_names, rows, Len(rows))]
             ELSE [ok |-> FALSE,
                   table |-> TableAfter(table, field_names, rows, SetMin(bad) - 1)]

\* the tuples bulk_insert prepares from the typed frame
PreparedRows(columns, df) ==
    [r \in 1..NumRows(df) |->
        [c \in 1..Len(columns) |->
            IF IsNA(df[c].values[r]) THEN SqlNull
            ELSE convert_value_for_sqlite(df[c].values[r], columns[c].data_type)]]

\* a load that reports the rows the table holds instead of the rows it
\* inserted
bulk_insert_counting_table(tbls, table_name, columns, df) ==
    IF NumRows(df) = 0 THEN [ok |-> TRUE, tables |-> tbls, row_count |-> 0]
    ELSE IF table_name \notin DOMAIN tbls THEN [ok |-> FALSE, tables |-> tbls, row_count |-> 0]
    ELSE LET r == InsertMany(tbls[table_name],
                             [c \in 1..Len(columns) |-> columns[c].field_name],
                             PreparedRows(columns, df))
         IN  [ok |-> r.ok, tables |-> [tbls EXCEPT ![table_name] = r.table],
              row_count |-> Len(r.table.rows)]

\* bulk_insert: [ok, tables, row_count]; a missing table makes the INSERT fail
bulk_insert(tbls, table_name, columns, df) ==
    IF NumRows(df) = 0 THEN [ok |-> TRUE, tables |-> tbls, row_count |-> 0]
    ELSE IF table_name \notin DOMAIN tbls THEN [ok |-> FALSE, tables |-> tbls, row_count |-> 0]
    ELSE LET r == InsertMany(tbls[table_name],
                             [c \in 1..Len(columns) |-> columns[c].field_name],
                             PreparedRows(columns, df))
         IN  [ok |-> r.ok, tables |-> [tbls EXCEPT ![table_name] = r.table],
              row_count |-> NumRows(df)]


-----------------------------------------------------------------------------
(* Uploaded files.  A file is [ext, mime, size, frame]: the extension of   *)
(* its name, the MIME type libmagic reports, its size in size units and    *)
(* the frame pandas reads from it.                                         *)

ALLOWED_MIMES ==
    {"text/csv", "text/plain",
     "application/vnd.openxmlformats-officedocument.spreadsheetml.sheet",
     "application/vnd.ms-excel"}

Col(label, dtype, values) == [label |-> label, dtype |-> dtype, values |-> values]

PeopleFrame ==
    << Col(<<"N">>, "object", <<StrCell(TOK_ABC), StrCell(TOK_BOB)>>),
       Col(<<"S"," ","$">>, "int64", <<IntCell(1), IntCell(7)>>) >>

\* every value distinct: both columns are flagged unique
F_people == [ext |-> "csv", mime |-> "text/csv", size |-> 1, frame |-> PeopleFrame]

\* a boolean column with an absent cell, no column flagged unique
F_flags ==
    [ext |-> "csv", mime |-> "text/plain", size |-> 1,
     frame |-> << Col(<<"o","k">>, "object", <<StrCell(TOK_YES), NAcell, StrCell(TOK_YES)>>),
                  Col(<<"n">>, "int64", <<IntCell(7), IntCell(7), IntCell(7)>>) >>]

\* two labels that differ only in case
F_clash ==
    [ext |-> "xlsx", mime |-> "application/vnd.openxmlformats-officedocument.spreadsheetml.sheet",
     size |-> 1,
     frame |-> << Col(<<"a">>, "int64", <<IntCell(1)>>), Col(<<"A">>, "int64", <<IntCell(1)>>) >>]

\* a header line and no data row
F_empty == [ext |-> "csv", mime |-> "text/csv", size |-> 1,
            frame |-> << Col(<<"a">>, "object", <<>>) >>]

\* one row more than MAX_ROWS
F_long == [ext |-> "csv", mime |-> "text/csv", size |-> 1,
           frame |-> << Col(<<"n">>, "int64", [r \in 1..(MAX_ROWS + 1) |-> IntCell(7)]) >>]

\* one column more than MAX_COLUMNS
F_wide == [ext |-> "csv", mime |-> "text/csv", size |-> 1,
           frame |-> [c \in 1..(MAX_COLUMNS + 1) |->
                         Col(<<"c">> \o ItoA(c), "int64", <<IntCell(7)>>)]]

\* larger than MAX_UPLOAD_SIZE
F_big == [ext |-> "csv", mime |-> "text/csv", size |-> MAX_UPLOAD_SIZE + 1,
          frame |-> PeopleFrame]

\* not a spreadsheet
F_png == [ext |-> "png", mime |-> "image/png", size |-> 1, frame |-> <<>>]

\* plain text under a name the parser does not accept
F_txt == [ext |-> "txt", mime |-> "text/plain", size |-> 1, frame |-> PeopleFrame]

Files == <<F_people, F_flags, F_clash, F_empty, F_long, F_wide, F_big, F_png, F_txt>>

NameSamples == {<<"A","!">>}

-----------------------------------------------------------------------------
(* core/models.py: the Dataset record and Dataset.save.                    *)

NoText == <<>>      \* the empty string

SLUG_BASE_LEN == 200

\* re.sub(r'[-\s]+', '-', value)
RECURSIVE HyphenateFrom(_, _, _)
HyphenateFrom(s, i, acc) ==
    IF i > Len(s) THEN acc
    ELSE IF s[i] \in {"-", " "}
         THEN IF i > 1 /\ s[i - 1] \in {"-", " "} THEN HyphenateFrom(s, i + 1, acc)
              ELSE HyphenateFrom(s, i + 1, Append(acc, "-"))
         ELSE HyphenateFrom(s, i + 1, Append(acc, s[i]))

\* django.utils.text.slugify on the characters of the model
slugify(value) ==
    LET kept == SelectSeq(Lower(value), LAMBDA c : c \in NameChars \cup {"-", " "})
    IN  StripChars(HyphenateFrom(kept, 1, <<>>), {"-", "_"})

\* Dataset.objects.create(...): the fields the view passes and the defaults
NewDataset(id, name, file, api_key) ==
    [id |-> id, name |-> name, slug |-> NoText, status |-> "processing",
     error_message |-> NoText, row_count |-> 0, table_name |-> NoText,
     api_key |-> api_key, file |-> file]

ShortIds == 3       \* values of the first 8 hex digits of an id

\* str(self.id).replace('-', '')[:8]: the first 8 hex digits of the id.  An
\* id is a number; the ids that differ by a multiple of ShortIds agree in
\* these digits
ShortId(id) == ((id - 1) % ShortIds) + 1

\* 'dataset_' + the first 8 hex digits of the id
TableNameOf(id) == <<"dataset_", ShortId(id)>>

SlugTaken(stored, slug) == \E d \in DOMAIN stored : stored[d].slug = slug

Suffixed(base, k) == base \o <<"-">> \o ItoA(k)

\* the slug the loop of Dataset.save ends with
FreeSlug(stored, base) ==
    IF ~SlugTaken(stored, base) THEN base
    ELSE Suffixed(base, CHOOSE k \in 1..(Cardinality(DOMAIN stored) + 1) :
                      /\ ~SlugTaken(stored, Suffixed(base, k))
                      /\ \A j \in 1..(k - 1) : SlugTaken(stored, Suffixed(base, j)))

\* Dataset.save: [store, obj], the table after the write and the object
DatasetSave(stored, obj) ==
    LET base == slugify(obj.name)
        cut == IF Len(base) > SLUG_BASE_LEN THEN SubSeq(base, 1, SLUG_BASE_LEN) ELSE base
        o2 == [obj EXCEPT
                 !.slug = IF @ = NoText THEN FreeSlug(stored, cut) ELSE @,
                 !.table_name = IF @ = NoText THEN TableNameOf(obj.id) ELSE @]
    IN  [store |-> (obj.id :> o2) @@ stored, obj |-> o2]

\* the stored datasets and their status fields
StoredStatus(stored) == {<<d, stored[d].status>> : d \in DOMAIN stored}

\* dropping the keys in `gone` from a table or map
Without(f, gone) == [x \in DOMAIN f \ gone |-> f[x]]

-----------------------------------------------------------------------------
(* The state of the service.                                               *)

NoKey == 0      \* no APIKey record (None)

NoDataset == NewDataset(0, NoText, 0, NoKey)

\* no pipeline run in progress
Idle ==
    [pc |-> "idle", ds |-> 0, origin |-> "none", mem |-> NoDataset, df |-> <<>>,
     schema |-> <<>>, viewset |-> <<>>, exc |-> NoText, failed |-> FALSE,
     injected |-> FALSE, savedReady |-> FALSE, newKey |-> FALSE, before |-> {},
     rows0 |-> 0]

NoPk == [ok |-> FALSE, id |-> 0]

\* no response yet
NoResp ==
    [op |-> "none", status |-> 0, key |-> NoKey, owner |-> NoKey, malformed |-> FALSE,
     steps |-> <<>>, sql |-> 0, changed |-> FALSE,
     slug |-> NoText, table |-> NoText, file |-> 0, before |-> {}, trail |-> <<>>]

NoRun == [n |-> 0, ok |-> FALSE, clean |-> FALSE, columns |-> <<>>, row_count |-> 0]

MainEmpty ==
    /\ nextId = 1
    /\ datasets = <<>>
    /\ datasetColumns = <<>>
    /\ tables = <<>>
    /\ apiRegistry = <<>>
    /\ registered = {}
    /\ routes = <<>>
    /\ run = Idle
    /\ resp = NoResp
    /\ lastRun = <<>>
    /\ faults = 0

-----------------------------------------------------------------------------
(* auth_keys/models.py: API keys.  A key string is a sequence of           *)
(* characters; sha256 is an injective tagging of its argument.             *)

\* samples of the alphabets of secrets.token_hex and secrets.token_urlsafe
HexSample == {"0", "f"}
UrlSafeSample == {"A", "_"}

API_KEY_SALT == <<"s">>

Sha256(s) == <<"sha256", s>>

KeysEmpty == apiKeys = {} /\ issued = {} /\ lastAuth = <<>>

\* str.split(sep): the parts of s between the occurrences of sep
RECURSIVE SplitFrom(_, _, _, _)
SplitFrom(s, sep, i, cur) ==
    IF i > Len(s) THEN <<cur>>
    ELSE IF s[i] = sep THEN <<cur>> \o SplitFrom(s, sep, i + 1, <<>>)
    ELSE SplitFrom(s, sep, i + 1, Append(cur, s[i]))

Split(s, sep) == SplitFrom(s, sep, 1, <<>>)

StartsWith(s, p) == Len(s) >= Len(p) /\ SubSeq(s, 1, Len(p)) = p

FullKey(prefix, key_part) == <<"f","t","a","_">> \o prefix \o <<"_">> \o key_part

\* the record APIKey.generate creates
NewKeyRecord(id, prefix, key_part) ==
    [id |-> id, prefix |-> prefix, hashed_key |-> Sha256(key_part \o API_KEY_SALT),
     is_active |-> TRUE, used |-> FALSE]

\* cls.objects.get(prefix=prefix, is_active=True)
LookupActiveKey(keys, prefix) == {k \in keys : k.prefix = prefix /\ k.is_active}

\* APIKey.validate_key: the id of the record, or NoKey
validate_key(keys, full_key) ==
    IF ~StartsWith(full_key, <<"f","t","a","_">>) THEN NoKey
    ELSE LET parts == Split(full_key, "_")
         IN  IF Len(parts) # 3 THEN NoKey
             ELSE LET found == LookupActiveKey(keys, parts[2])
                  IN  IF Cardinality(found) # 1 THEN NoKey
                      ELSE LET k == CHOOSE k \in found : TRUE
                           IN  IF Sha256(parts[3] \o API_KEY_SALT) # k.hashed_key
                               THEN NoKey ELSE k.id

\* APIKey.generate(name) with the two random values it draws; the unique
\* prefix makes the insert fail when the prefix is taken
GenerateKey(prefix, key_part) ==
    /\ Cardinality(apiKeys) < MaxKeys
    /\ \A k \in apiKeys : k.prefix # prefix
    /\ LET id == Cardinality(apiKeys) + 1
       IN  /\ apiKeys' = apiKeys \cup {NewKeyRecord(id, prefix, key_part)}
           /\ issued' = issued \cup {[id |-> id, full_key |-> FullKey(prefix, key_part)]}
    /\ UNCHANGED lastAuth

Generate ==
    /\ \E prefix \in [1..PrefixLen -> HexSample], key_part \in [1..KeyPartLen -> UrlSafeSample] :
          GenerateKey(prefix, key_part)
    /\ UNCHANGED <<pureVars, mainVars>>

\* a request presents a key that was issued: validate_key runs and, on
\* success, saves last_used
Validate ==
    /\ \E i \in issued :
          LET r == validate_key(apiKeys, i.full_key)
          IN  /\ lastAuth' = [key |-> i.full_key, result |-> r]
              /\ apiKeys' = {IF k.id = r THEN [k EXCEPT !.used = TRUE] ELSE k : k \in apiKeys}
    /\ UNCHANGED <<issued, pureVars, mainVars>>

\* APIKeyViewSet.destroy: the owner revokes the key
Revoke ==
    /\ \E k \in apiKeys :
          /\ k.is_active
          /\ apiKeys' = (apiKeys \ {k}) \cup {[k EXCEPT !.is_active = FALSE]}
    /\ UNCHANGED <<issued, lastAuth, pureVars, mainVars>>

KeysInit == KeysEmpty /\ MainEmpty /\ pin = <<>> /\ pout = <<>>

KeysNext == Generate \/ Validate \/ Revoke

SpecKeys == KeysInit /\ [][KeysNext]_vars

KeyIsActive(id) == \E k \in apiKeys : k.id = id /\ k.is_active

\* C7: every key APIKey.generate returned splits on '_' into exactly three
\* parts and, while its record is active, validate_key gives that record.
C7_KeyRoundTrip ==
    \A i \in issued :
        /\ Len(Split(i.full_key, "_")) = 3
        /\ KeyIsActive(i.id) => validate_key(apiKeys, i.full_key) = i.id


-----------------------------------------------------------------------------
(* engine/router.py and engine/api_generator.py: the registries.           *)

\* router.unregister_dataset_api: the slug leaves _registered_datasets; the
\* router keeps its route
unregister_dataset_api(reg, slug) == reg \ {slug}

\* router.is_registered
is_registered(reg, slug) == slug \in reg

NoApi == <<>>       \* None

\* api_generator.get_api: the entry as a one-element sequence, or None
get_api(registry, slug) == IF slug \in DOMAIN registry THEN <<registry[slug]>> ELSE NoApi

-----------------------------------------------------------------------------
(* core/views.py: DatasetViewSet.create, up to the call of the pipeline.   *)

\* the principals a request can be authenticated as: none, or the record
\* validate_key finds for a key that was issued
Principals == {NoKey} \cup {validate_key(apiKeys, i.full_key) : i \in issued}

\* DatasetUploadSerializer.validate_file
validate_file(file) == file.size <= MAX_UPLOAD_SIZE /\ file.mime \in ALLOWED_MIMES

\* the serializer rejects the upload: 400, nothing is stored
UploadRejected ==
    /\ run.pc = "idle"
    /\ \E f \in 1..Len(Files) :
          /\ ~validate_file(Files[f])
          /\ resp' = [NoResp EXCEPT !.op = "upload", !.status = 400, !.file = f,
                                    !.before = StoredStatus(datasets)]
    /\ UNCHANGED <<pureVars, keyVars, nextId, datasets, datasetColumns, tables, regVars,
                   run, lastRun, faults>>

\* the rows the table holds, none when there is no such table
RowsIn(tbls, table_name) ==
    IF table_name \in DOMAIN tbls THEN Len(tbls[table_name].rows) ELSE 0

\* the view stores the record with status 'processing' and enters
\* process_uploaded_file
StartUpload(f, name, api_key, new_key) ==
    LET s == DatasetSave(datasets, NewDataset(nextId, name, f, api_key))
    IN  /\ datasets' = s.store
        /\ datasetColumns' = (nextId :> <<>>) @@ datasetColumns
        /\ lastRun' = (nextId :> NoRun) @@ lastRun
        /\ nextId' = nextId + 1
        /\ run' = [Idle EXCEPT !.pc = "parse", !.ds = nextId, !.origin = "create",
                               !.mem = s.obj, !.newKey = new_key,
                               !.before = StoredStatus(datasets),
                               !.rows0 = RowsIn(tables, s.obj.table_name)]
        /\ resp' = NoResp

\* an upload that presents a valid API key
UploadWithKey ==
    /\ run.pc = "idle"
    /\ nextId <= MaxUploads
    /\ \E f \in 1..Len(Files), name \in NameSamples, k \in Principals \ {NoKey} :
          /\ validate_file(Files[f])
          /\ StartUpload(f, name, k, FALSE)
    /\ UNCHANGED <<pureVars, keyVars, tables, regVars, faults>>

\* an upload without a key: APIKey.generate makes one for it
UploadAnonymous ==
    /\ run.pc = "idle"
    /\ nextId <= MaxUploads
    /\ \E f \in 1..Len(Files), name \in NameSamples,
          prefix \in [1..PrefixLen -> HexSample], key_part \in [1..KeyPartLen -> UrlSafeSample] :
          /\ validate_file(Files[f])
          /\ GenerateKey(prefix, key_part)
          /\ StartUpload(f, name, Cardinality(apiKeys) + 1, TRUE)
    /\ UNCHANGED <<pureVars, tables, regVars, faults>>

\* a direct call of process_uploaded_file on a stored dataset (re-process)
Reprocess ==
    /\ run.pc = "idle"
    /\ \E d \in DOMAIN datasets :
          /\ lastRun[d].n < MaxRuns
          /\ run' = [Idle EXCEPT !.pc = "parse", !.ds = d, !.origin = "direct",
                                 !.mem = datasets[d], !.before = StoredStatus(datasets),
                                 !.rows0 = RowsIn(tables, datasets[d].table_name)]
    /\ resp' = NoResp
    /\ UNCHANGED <<pureVars, keyVars, nextId, datasets, datasetColumns, tables, regVars,
                   lastRun, faults>>

-----------------------------------------------------------------------------
(* engine/processor.py: process_uploaded_file, one action per step.  A     *)
(* step fails where its code fails, or because the environment fails it.   *)

InjectChoices == IF faults < MaxFaults THEN BOOLEAN ELSE {FALSE}

Injected(step) == <<"failure of the environment", step>>

\* the except clause: status, message
HandleException(obj, msg) == [obj EXCEPT !.status = "error", !.error_message = msg]

\* a step raises: the except clause saves the dataset and re-raises
Raise(msg, inj) ==
    LET s == DatasetSave(datasets, HandleException(run.mem, msg))
    IN  /\ datasets' = s.store
        /\ run' = [run EXCEPT !.pc = "raised", !.mem = s.obj, !.exc = msg,
                              !.failed = TRUE, !.injected = inj,
                              !.df = <<>>, !.schema = <<>>, !.viewset = <<>>]
        /\ faults' = IF inj THEN faults + 1 ELSE faults

\* a step succeeds and leaves the stored dataset alone
Advance(r) == run' = r /\ UNCHANGED <<datasets, faults>>

\* step 1: parse the file
StepParse ==
    /\ run.pc = "parse"
    /\ \E inj \in InjectChoices :
          LET r == ParseFile(Files[run.mem.file])
          IN  IF inj THEN Raise(Injected("parse"), TRUE)
              ELSE IF ~r.ok THEN Raise(r.msg, FALSE)
              ELSE Advance([run EXCEPT !.pc = "detect", !.df = r.df])
    /\ UNCHANGED <<pureVars, keyVars, nextId, datasetColumns, tables, regVars, resp, lastRun>>

\* step 2: detect the schema
StepDetect ==
    /\ run.pc = "detect"
    /\ \E inj \in InjectChoices :
          IF inj THEN Raise(Injected("detect"), TRUE)
          ELSE Advance([run EXCEPT !.pc = "columns", !.schema = detect_schema(run.df)])
    /\ UNCHANGED <<pureVars, keyVars, nextId, datasetColumns, tables, regVars, resp, lastRun>>

\* the positions at which creating the descriptors stops: the position
\* where the environment fails, and every descriptor whose field_name an
\* earlier one of the schema has (unique_together)
ColumnStops(schema, fail_at) ==
    (IF fail_at = 0 THEN {} ELSE {fail_at})
    \cup {i \in 1..Len(schema) : \E j \in 1..(i - 1) : schema[j].field_name = schema[i].field_name}

\* a replacement that keeps what it did before it failed
ReplaceColumnsNoRollback(old, schema, fail_at) ==
    LET stops == ColumnStops(schema, fail_at)
    IN  IF stops = {} THEN [ok |-> TRUE, columns |-> schema, at |-> 0]
        ELSE [ok |-> FALSE, columns |-> SubSeq(schema, 1, SetMin(stops) - 1),
              at |-> SetMin(stops)]

\* with transaction.atomic(): delete the descriptors of the dataset, create
\* one per column of the schema; an exception rolls both back
ReplaceColumns(old, schema, fail_at) ==
    LET stops == ColumnStops(schema, fail_at)
    IN  IF stops = {} THEN [ok |-> TRUE, columns |-> schema, at |-> 0]
        ELSE [ok |-> FALSE, columns |-> old, at |-> SetMin(stops)]

\* step 3: replace the column descriptors inside transaction.atomic()
StepSaveColumns ==
    /\ run.pc = "columns"
    /\ \E fail_at \in (IF faults < MaxFaults THEN 0..Len(run.schema) ELSE {0}) :
          \E r \in {ReplaceColumns(datasetColumns[run.ds], run.schema, fail_at)} :
             /\ datasetColumns' = [datasetColumns EXCEPT ![run.ds] = r.columns]
             /\ IF r.ok THEN Advance([run EXCEPT !.pc = "table"])
                ELSE IF r.at = fail_at THEN Raise(Injected("columns"), TRUE)
                ELSE Raise(<<"UNIQUE constraint failed", "core_datasetcolumn">>, FALSE)
    /\ UNCHANGED <<pureVars, keyVars, nextId, tables, regVars, resp, lastRun>>

\* step 4: create the dynamic table
StepCreateTable ==
    /\ run.pc = "table"
    /\ \E inj \in InjectChoices :
          IF inj THEN Raise(Injected("table"), TRUE) /\ UNCHANGED tables
          ELSE \E r \in {create_dynamic_table(tables, run.mem.table_name, run.schema)} :
               /\ tables' = r.tables
               /\ IF r.ok THEN Advance([run EXCEPT !.pc = "insert"])
                  ELSE Raise(<<"duplicate column name", run.mem.table_name>>, FALSE)
    /\ UNCHANGED <<pureVars, keyVars, nextId, datasetColumns, regVars, resp, lastRun>>

\* step 5: convert and load the rows, then save row_count
StepInsert ==
    /\ run.pc = "insert"
    /\ \E inj \in InjectChoices,
          r \in {bulk_insert(tables, run.mem.table_name, run.schema,
                             convert_dataframe_types(run.df, run.schema))} :
          IF inj THEN Raise(Injected("insert"), TRUE) /\ UNCHANGED tables
          ELSE IF ~r.ok
               THEN /\ tables' = r.tables
                    /\ Raise(<<"constraint failed", run.mem.table_name>>, FALSE)
          ELSE \E s \in {DatasetSave(datasets, [run.mem EXCEPT !.row_count = r.row_count])} :
                  /\ tables' = r.tables
                  /\ datasets' = s.store
                  /\ run' = [run EXCEPT !.pc = "generate", !.mem = s.obj,
                                        !.savedReady = @ \/ s.obj.status = "ready"]
                  /\ UNCHANGED faults
    /\ UNCHANGED <<pureVars, keyVars, nextId, datasetColumns, regVars, resp, lastRun>>

\* the view set generate_api builds: it closes over the dataset object, its
\* table name and slug, and the DatasetColumn instances read from the store.
\* Every call creates a new class: made tells the classes of one dataset
\* apart by the run that created them.
ViewSetFor(dataset, cols, made) ==
    [slug |-> dataset.slug, table_name |-> dataset.table_name,
     columns |-> [kind |-> "DatasetColumn", items |-> cols],
     owner |-> dataset.api_key, dataset |-> dataset.id, made |-> made]

\* step 6: generate_api
StepGenerateApi ==
    /\ run.pc = "generate"
    /\ \E inj \in InjectChoices :
          LET vs == ViewSetFor(run.mem, datasetColumns[run.ds], lastRun[run.ds].n + 1)
          IN  IF inj THEN Raise(Injected("generate"), TRUE) /\ UNCHANGED apiRegistry
              ELSE /\ apiRegistry' = (run.mem.slug :> vs) @@ apiRegistry
                   /\ Advance([run EXCEPT !.pc = "register", !.viewset = vs])
    /\ UNCHANGED <<pureVars, keyVars, nextId, datasetColumns, tables, registered, routes,
                   resp, lastRun>>

\* the router already holds a route of this basename
HasRoute(slug) == \E i \in 1..Len(routes) : routes[i].slug = slug

\* step 7: register_dataset_api.  SimpleRouter.register of a basename the
\* router already holds raises in the releases that check it and appends in
\* the others.
StepRegister ==
    /\ run.pc = "register"
    /\ \E inj \in InjectChoices, checks \in BOOLEAN :
          IF inj THEN Raise(Injected("register"), TRUE) /\ UNCHANGED <<registered, routes>>
          ELSE IF run.mem.slug \in registered
               THEN Advance([run EXCEPT !.pc = "ready"]) /\ UNCHANGED <<registered, routes>>
          ELSE IF HasRoute(run.mem.slug) /\ checks
               THEN Raise(<<"ImproperlyConfigured", run.mem.slug>>, FALSE)
                    /\ UNCHANGED <<registered, routes>>
          ELSE /\ routes' = Append(routes, run.viewset)
               /\ registered' = registered \cup {run.mem.slug}
               /\ Advance([run EXCEPT !.pc = "ready"])
    /\ UNCHANGED <<pureVars, keyVars, nextId, datasetColumns, tables, apiRegistry, resp, lastRun>>

\* step 8: status 'ready'
StepMarkReady ==
    /\ run.pc = "ready"
    /\ LET s == DatasetSave(datasets, [run.mem EXCEPT !.status = "ready",
                                                      !.error_message = NoText])
       IN  /\ datasets' = s.store
           /\ run' = [run EXCEPT !.pc = "done", !.mem = s.obj, !.savedReady = TRUE,
                                 !.df = <<>>, !.schema = <<>>, !.viewset = <<>>]
    /\ UNCHANGED <<pureVars, keyVars, nextId, datasetColumns, tables, regVars, resp, lastRun,
                   faults>>

\* what the run leaves for the next run on the dataset to be compared with
RunOutcome(d, inj) ==
    [n |-> lastRun[d].n + 1, ok |-> run.pc = "done", clean |-> ~run.injected /\ ~inj,
     columns |-> datasetColumns[d], row_count |-> datasets[d].row_count]

\* a direct call returns or raises to its caller
ReturnDirect ==
    /\ run.pc \in {"done", "raised"}
    /\ run.origin = "direct"
    /\ lastRun' = [lastRun EXCEPT ![run.ds] = RunOutcome(run.ds, FALSE)]
    /\ run' = Idle
    /\ UNCHANGED <<pureVars, keyVars, nextId, datasets, datasetColumns, tables, regVars, resp,
                   faults>>

\* DatasetViewSet.create after the pipeline: refresh_from_db, or the except
\* clause that records the error again; the response is 201 either way
ReturnToCreate ==
    /\ run.pc \in {"done", "raised"}
    /\ run.origin = "create"
    /\ \E inj \in (IF run.pc = "done" THEN InjectChoices ELSE {FALSE}) :
          LET msg == IF inj THEN Injected("refresh") ELSE run.exc
              s == IF run.pc = "raised" \/ inj
                   THEN DatasetSave(datasets, HandleException(run.mem, msg))
                   ELSE [store |-> datasets, obj |-> datasets[run.ds]]
          IN  /\ datasets' = s.store
              /\ faults' = IF inj THEN faults + 1 ELSE faults
              /\ lastRun' = [lastRun EXCEPT ![run.ds] = RunOutcome(run.ds, inj)]
              /\ resp' = [NoResp EXCEPT !.op = "upload", !.status = 201,
                                        !.key = s.obj.api_key, !.slug = s.obj.slug,
                                        !.table = s.obj.table_name, !.file = s.obj.file,
                                        !.before = run.before]
    /\ run' = Idle
    /\ UNCHANGED <<pureVars, keyVars, nextId, datasetColumns, tables, regVars>>

-----------------------------------------------------------------------------
(* core/views.py: DatasetViewSet.destroy.                                  *)

\* the three statements of destroy in an order that deletes the record
\* before the slug is unregistered
destroy_effects_record_first(tbls, reg, dsets, d, drop_fails) ==
    LET s1 == [step |-> "drop_dynamic_table",
               tables |-> IF drop_fails THEN tbls
                          ELSE drop_dynamic_table(tbls, dsets[d].table_name),
               registered |-> reg, datasets |-> dsets]
        s2 == [s1 EXCEPT !.step = "delete", !.datasets = Without(@, {d})]
        s3 == [s2 EXCEPT !.step = "unregister_dataset_api",
                         !.registered = unregister_dataset_api(@, dsets[d].slug)]
    IN  <<s1, s2, s3>>

\* the statements of destroy after get_object, with the tables, the
\* registered slugs and the records each of them leaves: the drop (a
\* failure of the drop is logged and ignored), unregister_dataset_api,
\* dataset.delete()
destroy_effects(tbls, reg, dsets, d, drop_fails) ==
    LET s1 == [step |-> "drop_dynamic_table",
               tables |-> IF drop_fails THEN tbls
                          ELSE drop_dynamic_table(tbls, dsets[d].table_name),
               registered |-> reg, datasets |-> dsets]
        s2 == [s1 EXCEPT !.step = "unregister_dataset_api",
                         !.registered = unregister_dataset_api(@, dsets[d].slug)]
        s3 == [s2 EXCEPT !.step = "delete", !.datasets = Without(@, {d})]
    IN  <<s1, s2, s3>>

\* what a request could observe of dataset d after each statement
DestroyTrail(fx, d, ds) ==
    [i \in 1..Len(fx) |->
        [step |-> fx[i].step,
         table |-> ds.table_name \in DOMAIN fx[i].tables,
         registered |-> is_registered(fx[i].registered, ds.slug),
         record |-> d \in DOMAIN fx[i].datasets]]

\* get_object: 401 without a key, 404 for a dataset of another key; then
\* the three statements; the record goes with its descriptors
DestroyDataset ==
    /\ run.pc = "idle"
    /\ \E d \in DOMAIN datasets, k \in Principals, inj \in InjectChoices :
          LET ds == datasets[d]
              answer(code) == [NoResp EXCEPT !.op = "dataset_destroy", !.status = code,
                                             !.key = k, !.owner = ds.api_key,
                                             !.slug = ds.slug, !.table = ds.table_name]
          IN  IF k = NoKey \/ k # ds.api_key
              THEN /\ ~inj
                   /\ resp' = answer(IF k = NoKey THEN 401 ELSE 404)
                   /\ UNCHANGED <<datasets, datasetColumns, tables, registered, lastRun, faults>>
              ELSE \E fx \in {destroy_effects(tables, registered, datasets, d, inj)} :
                   /\ tables' = fx[Len(fx)].tables
                   /\ faults' = IF inj THEN faults + 1 ELSE faults
                   /\ registered' = fx[Len(fx)].registered
                   /\ datasets' = fx[Len(fx)].datasets
                   /\ datasetColumns' = Without(datasetColumns, {d})
                   /\ lastRun' = Without(lastRun, {d})
                   /\ resp' = [answer(204) EXCEPT !.trail = DestroyTrail(fx, d, ds)]
    /\ UNCHANGED <<pureVars, keyVars, nextId, apiRegistry, routes, run>>

-----------------------------------------------------------------------------
(* engine/table_builder.py: the row functions the view sets call.  Their   *)
(* columns argument is [kind, items]; they subscript each column           *)
(* (c['field_name']), which a dict supports and a DatasetColumn instance   *)
(* does not.  A result is [ok, exc, sql, ...]: sql counts the statements   *)
(* that reached the database.                                              *)

Subscriptable(cols) == cols.kind = "dict"

FieldNames(items) == [c \in 1..Len(items) |-> items[c].field_name]

Readable(tbls, table_name, items) ==
    table_name \in DOMAIN tbls /\ HasColumns(tbls[table_name], FieldNames(items))

HasRow(table, row_id) == \E r \in 1..Len(table.rows) : table.rows[r].id = row_id

\* query_table followed by get_table_row_count, as list calls them
query_table(tbls, table_name, cols) ==
    IF ~Subscriptable(cols) THEN [ok |-> FALSE, exc |-> "TypeError", sql |-> 0]
    ELSE IF ~Readable(tbls, table_name, cols.items)
         THEN [ok |-> FALSE, exc |-> "OperationalError", sql |-> 1]
    ELSE [ok |-> TRUE, exc |-> "", sql |-> 2]

\* None
NoRow == <<>>

\* the dict query_table makes of the row row_id: 'id' and the value of
\* every field of the columns
RowDict(table, items, row_id) ==
    IF ~HasRow(table, row_id) THEN NoRow
    ELSE LET row == table.rows[CHOOSE r \in 1..Len(table.rows) : table.rows[r].id = row_id]
         IN  [id |-> row.id,
              fields |-> [c \in 1..Len(items) |->
                             row.vals[ColIndex(table, items[c].field_name)]]]

get_single_row(tbls, table_name, cols, row_id) ==
    IF ~Subscriptable(cols)
    THEN [ok |-> FALSE, exc |-> "TypeError", sql |-> 0, found |-> FALSE, row |-> NoRow]
    ELSE IF ~Readable(tbls, table_name, cols.items)
         THEN [ok |-> FALSE, exc |-> "OperationalError", sql |-> 1, found |-> FALSE,
               row |-> NoRow]
    ELSE [ok |-> TRUE, exc |-> "", sql |-> 1, found |-> HasRow(tbls[table_name], row_id),
          row |-> RowDict(tbls[table_name], cols.items, row_id)]

\* the values insert_row and update_row bind for the fields of data
BoundValues(items, data) ==
    [c \in 1..Len(items) |-> convert_value_for_sqlite(data[c], items[c].data_type)]

\* insert_row: id is cursor.lastrowid
insert_row(tbls, table_name, cols, data) ==
    IF ~Subscriptable(cols)
    THEN [ok |-> FALSE, exc |-> "TypeError", sql |-> 0, tables |-> tbls, id |-> 0]
    ELSE IF table_name \notin DOMAIN tbls
         THEN [ok |-> FALSE, exc |-> "OperationalError", sql |-> 1, tables |-> tbls, id |-> 0]
    ELSE LET r == InsertOne(tbls[table_name], FieldNames(cols.items),
                            BoundValues(cols.items, data))
         IN  IF ~r.ok
             THEN [ok |-> FALSE, exc |-> "DatabaseError", sql |-> 1, tables |-> tbls, id |-> 0]
             ELSE [ok |-> TRUE, exc |-> "", sql |-> 1,
                   tables |-> [tbls EXCEPT ![table_name] = r.table], id |-> r.table.seq]

update_row(tbls, table_name, cols, row_id, data) ==
    IF ~Subscriptable(cols)
    THEN [ok |-> FALSE, exc |-> "TypeError", sql |-> 0, tables |-> tbls]
    ELSE IF ~Readable(tbls, table_name, cols.items)
         THEN [ok |-> FALSE, exc |-> "OperationalError", sql |-> 1, tables |-> tbls]
    ELSE LET t == tbls[table_name]
             vals == RowFor(t, FieldNames(cols.items), BoundValues(cols.items, data))
         IN  IF Violates(t, vals, row_id)
             THEN [ok |-> FALSE, exc |-> "IntegrityError", sql |-> 1, tables |-> tbls]
             ELSE [ok |-> TRUE, exc |-> "", sql |-> 1,
                   tables |-> [tbls EXCEPT ![table_name].rows =
                                  [r \in 1..Len(@) |->
                                      IF @[r].id = row_id THEN [@[r] EXCEPT !.vals = vals]
                                      ELSE @[r]]]]

delete_row(tbls, table_name, row_id) ==
    IF table_name \notin DOMAIN tbls
    THEN [ok |-> FALSE, exc |-> "OperationalError", sql |-> 1, deleted |-> FALSE,
          tables |-> tbls]
    ELSE [ok |-> TRUE, exc |-> "", sql |-> 1,
          deleted |-> HasRow(tbls[table_name], row_id),
          tables |-> [tbls EXCEPT ![table_name].rows =
                         SelectSeq(@, LAMBDA row : row.id # row_id)]]

-----------------------------------------------------------------------------
(* engine/api_generator.py: the handlers of a generated view set.  A       *)
(* request is dispatched to the first view set the router holds for the    *)
(* slug.  A handler's result is [status, steps, sql, tables]: steps lists  *)
(* what it evaluated, in order.                                            *)

CrudOps == {"list", "retrieve", "create", "update", "partial_update", "destroy"}

\* the ids a request names: ill-formed, of no row, of the first loaded row
PkSamples == {NoPk, [ok |-> TRUE, id |-> 0], [ok |-> TRUE, id |-> 1]}

BodyKinds == {"invalid", "valid"}

CrudRequests ==
    {[op |-> "list", pk |-> NoPk, body |-> "none"]}
    \cup {[op |-> o, pk |-> p, body |-> "none"] : o \in {"retrieve", "destroy"}, p \in PkSamples}
    \cup {[op |-> "create", pk |-> NoPk, body |-> b] : b \in BodyKinds}
    \cup {[op |-> o, pk |-> p, body |-> b] :
             o \in {"update", "partial_update"}, p \in PkSamples, b \in BodyKinds}

\* the request names an ill-formed id or carries a body that is_valid rejects
Malformed(req) ==
    \/ req.op \in {"retrieve", "update", "partial_update", "destroy"} /\ ~req.pk.ok
    \/ req.body = "invalid"

\* validated data with every field populated, by the column's type
SampleValue(data_type) ==
    CASE data_type = "integer" -> IntCell(7)
      [] data_type = "float" -> <<"float", 2, <<"5">>>>
      [] data_type = "boolean" -> <<"bool", TRUE>>
      [] data_type = "date" -> StrCell(TOK_DATE)
      [] data_type = "datetime" -> <<"ts", TOK_DTIME>>
      [] OTHER -> StrCell(TOK_ABC)

SampleData(items) == [c \in 1..Len(items) |-> SampleValue(items[c].data_type)]

\* DynamicViewSet.check_ownership
check_ownership(key, owner) == IF key = NoKey THEN FALSE ELSE key = owner

Answer(status, steps, sql, tbls) ==
    [status |-> status, steps |-> steps, sql |-> sql, tables |-> tbls]

list(vs, tbls) ==
    LET q == query_table(tbls, vs.table_name, vs.columns)
    IN  IF ~q.ok THEN Answer(500, <<"check_ownership", "query_table">>, q.sql, tbls)
        ELSE Answer(200, <<"check_ownership", "query_table", "get_table_row_count">>,
                    q.sql, tbls)

retrieve(vs, pk, tbls) ==
    IF ~pk.ok THEN Answer(400, <<"check_ownership", "int(pk)">>, 0, tbls)
    ELSE LET g == get_single_row(tbls, vs.table_name, vs.columns, pk.id)
             steps == <<"check_ownership", "int(pk)", "get_single_row">>
         IN  IF ~g.ok THEN Answer(500, steps, g.sql, tbls)
             ELSE IF ~g.found THEN Answer(404, steps, g.sql, tbls)
             ELSE Answer(200, steps, g.sql, tbls)

create(vs, body, tbls) ==
    IF body # "valid" THEN Answer(400, <<"check_ownership", "is_valid">>, 0, tbls)
    ELSE LET i == insert_row(tbls, vs.table_name, vs.columns, SampleData(vs.columns.items))
         IN  IF ~i.ok
             THEN Answer(500, <<"check_ownership", "is_valid", "insert_row">>, i.sql, tbls)
             ELSE Answer(201, <<"check_ownership", "is_valid", "insert_row", "get_single_row">>,
                         i.sql + 1, i.tables)

\* update and partial_update
update(vs, pk, body, tbls) ==
    IF ~pk.ok THEN Answer(400, <<"check_ownership", "int(pk)">>, 0, tbls)
    ELSE LET g == get_single_row(tbls, vs.table_name, vs.columns, pk.id)
             looked == <<"check_ownership", "int(pk)", "get_single_row">>
         IN  IF ~g.ok THEN Answer(500, looked, g.sql, tbls)
             ELSE IF ~g.found THEN Answer(404, looked, g.sql, tbls)
             ELSE IF body # "valid" THEN Answer(400, Append(looked, "is_valid"), g.sql, tbls)
             ELSE LET u == update_row(tbls, vs.table_name, vs.columns, pk.id,
                                      SampleData(vs.columns.items))
                      steps == looked \o <<"is_valid", "update_row">>
                  IN  IF ~u.ok THEN Answer(500, steps, g.sql + u.sql, tbls)
                      ELSE Answer(200, Append(steps, "get_single_row"),
                                  g.sql + u.sql + 1, u.tables)

destroy(vs, pk, tbls) ==
    IF ~pk.ok THEN Answer(400, <<"check_ownership", "int(pk)">>, 0, tbls)
    ELSE LET d == delete_row(tbls, vs.table_name, pk.id)
             steps == <<"check_ownership", "int(pk)", "delete_row">>
         IN  IF ~d.ok THEN Answer(500, steps, d.sql, tbls)
             ELSE IF ~d.deleted THEN Answer(404, steps, d.sql, tbls)
             ELSE Answer(204, steps, d.sql, d.tables)

\* every handler starts with the ownership check
Handler(vs, req, key, tbls) ==
    IF ~check_ownership(key, vs.owner) THEN Answer(403, <<"check_ownership">>, 0, tbls)
    ELSE CASE req.op = "list" -> list(vs, tbls)
           [] req.op = "retrieve" -> retrieve(vs, req.pk, tbls)
           [] req.op = "create" -> create(vs, req.body, tbls)
           [] req.op \in {"update", "partial_update"} -> update(vs, req.pk, req.body, tbls)
           [] req.op = "destroy" -> destroy(vs, req.pk, tbls)

\* what rest_framework runs before the handler.  APIKeyAuthentication
\* .authenticate answers (None, api_key) for a request with a key, so the
\* request's user is None; with no key the user is the session's, if any.
\* get_permissions answers IsAuthenticated, which wants a user: without one
\* the request is refused, 403 when an authenticator succeeded and 401 (the
\* class has an authenticate_header) when none did.
Dispatch(vs, req, key, session, tbls) ==
    IF key # NoKey THEN Answer(403, <<"get_permissions">>, 0, tbls)
    ELSE IF ~session THEN Answer(401, <<"get_permissions">>, 0, tbls)
    ELSE Handler(vs, req, key, tbls)

\* the view set the router resolves the slug to
FirstRoute(slug) == routes[CHOOSE i \in 1..Len(routes) :
                              /\ routes[i].slug = slug
                              /\ \A j \in 1..(i - 1) : routes[j].slug # slug]

\* a request on a generated endpoint
Crud ==
    /\ run.pc = "idle"
    /\ \E i \in 1..Len(routes), req \in CrudRequests, k \in Principals, session \in BOOLEAN :
          \E vs \in {FirstRoute(routes[i].slug)} :
             \E h \in {Dispatch(vs, req, k, session, tables)} :
                /\ tables' = h.tables
                /\ resp' = [NoResp EXCEPT !.op = req.op, !.status = h.status, !.key = k,
                                          !.owner = vs.owner, !.malformed = Malformed(req),
                                          !.steps = h.steps, !.sql = h.sql,
                                          !.changed = h.tables # tables,
                                          !.slug = vs.slug, !.table = vs.table_name]
    /\ UNCHANGED <<pureVars, keyVars, nextId, datasets, datasetColumns, regVars, run, lastRun,
                   faults>>

-----------------------------------------------------------------------------
(* The service: uploads, re-processing, the pipeline's steps, requests on  *)
(* the generated endpoints, deletion of datasets and issue of API keys.    *)

Init == pin = <<>> /\ pout = <<>> /\ KeysEmpty /\ MainEmpty

Next ==
    \/ Generate
    \/ UploadRejected
    \/ UploadWithKey
    \/ UploadAnonymous
    \/ Reprocess
    \/ StepParse
    \/ StepDetect
    \/ StepSaveColumns
    \/ StepCreateTable
    \/ StepInsert
    \/ StepGenerateApi
    \/ StepRegister
    \/ StepMarkReady
    \/ ReturnDirect
    \/ ReturnToCreate
    \/ Crud
    \/ DestroyDataset

Spec == Init /\ [][Next]_vars

\* C1: when a step of process_uploaded_file raises, the run ends with the
\* exception re-raised, the stored status 'error' and the stored
\* error_message the exception's message, and no save of that run wrote the
\* status 'ready'.
C1_FailedRunNeverReady ==
    run.failed =>
        /\ run.pc = "raised"
        /\ datasets[run.ds].status = "error"
        /\ datasets[run.ds].error_message = run.exc
        /\ ~run.savedReady

\* C2: a request on a generated CRUD operation that carries no key, or a key
\* other than the owner's, is answered 403; nothing but the permission and
\* ownership checks was evaluated (no id validation, row lookup or body
\* validation), no statement was sent to the database and the tables are as
\* they were.
C2_NotOwnerDenied ==
    (resp.op \in CrudOps /\ (resp.key = NoKey \/ resp.key # resp.owner)) =>
        /\ resp.status = 403
        /\ \A i \in 1..Len(resp.steps) : resp.steps[i] \in {"get_permissions", "check_ownership"}
        /\ resp.sql = 0
        /\ ~resp.changed

\* C12: when the registration steps of the pipeline run for a slug that is
\* already present, nothing changes: generate_api leaves the entry the
\* registry holds for the slug as it is, and register_dataset_api leaves
\* the router's routes and the set of registered slugs as they are.
C12_ReRegistrationNoOp ==
    [][/\ (run.pc = "generate" /\ run'.pc = "register"
            /\ run.mem.slug \in DOMAIN apiRegistry)
           => apiRegistry'[run.mem.slug] = apiRegistry[run.mem.slug]
       /\ (run.pc = "register" /\ run'.pc = "ready" /\ run.mem.slug \in registered)
           => (routes' = routes /\ registered' = registered)]_vars

\* C14: the stored status of a dataset changes only from 'processing' to
\* 'ready' or from 'processing' to 'error'.  Outside a direct re-process
\* call no other change of a stored status happens; in particular a
\* dataset that a run of the request made 'ready' is not made 'error' by
\* the same request.
C14_StatusOnlyLeavesProcessing ==
    [][\A d \in DOMAIN datasets \cap DOMAIN datasets' :
          (datasets'[d].status # datasets[d].status /\ run.origin # "direct") =>
              /\ datasets[d].status = "processing"
              /\ datasets'[d].status \in {"ready", "error"}]_vars

\* C15: when process_uploaded_file ends with the dataset stored 'ready',
\* every step before has had its effect: the stored column descriptors are
\* the schema detected from the file, the backing table exists and its
\* last rows are the rows loaded from the file, the slug is registered,
\* error_message is empty and row_count is the number of rows loaded.
C15_ReadyAfterAllSteps ==
    (run.pc = "done" /\ datasets[run.ds].status = "ready") =>
        LET d == datasets[run.ds]
            df == ParseFile(Files[d.file]).df
            schema == detect_schema(df)
            loaded == PreparedRows(schema, convert_dataframe_types(df, schema))
            n == Len(loaded)
        IN  /\ datasetColumns[run.ds] = schema
            /\ d.table_name \in DOMAIN tables
            /\ Len(tables[d.table_name].rows) >= n
            /\ \A r \in 1..n :
                  tables[d.table_name].rows[Len(tables[d.table_name].rows) - n + r].vals
                      = loaded[r]
            /\ is_registered(registered, d.slug)
            /\ d.error_message = NoText
            /\ d.row_count = n

\* C15, its case: a second run on a dataset ended 'ready', with the rows of
\* the first run still in the table.
C15_SecondRunReady ==
    /\ run.pc = "done"
    /\ datasets[run.ds].status = "ready"
    /\ lastRun[run.ds].n = 1
    /\ Len(tables[datasets[run.ds].table_name].rows) > datasets[run.ds].row_count

\* C16: step 3 replaces the column descriptors all or nothing.  When the
\* step fails, at whatever descriptor, the dataset's stored descriptors are
\* the ones it had before the step; when it succeeds they are the new
\* schema and nothing else.
C16_ColumnsAllOrNothing ==
    [][(run.pc = "columns" /\ run'.pc # "columns") =>
          IF run'.failed THEN datasetColumns'[run.ds] = datasetColumns[run.ds]
          ELSE datasetColumns'[run.ds] = run.schema]_vars

\* C16, its case: step 3 of a second run failed and the dataset has the
\* descriptors of the first run.
C16_FailedReplaceKeepsOld ==
    /\ run.pc = "raised"
    /\ run.exc = Injected("columns")
    /\ lastRun[run.ds].n = 1
    /\ datasetColumns[run.ds] # <<>>
    /\ datasetColumns[run.ds] = lastRun[run.ds].columns

\* C18: DatasetViewSet.destroy performs its effects in the order drop the
\* table, unregister the slug, delete the record; at no point of the
\* request is the record gone while the slug is still registered.
C18_DestroyOrder ==
    (resp.op = "dataset_destroy" /\ resp.status = 204) =>
        /\ [i \in 1..Len(resp.trail) |-> resp.trail[i].step]
               = <<"drop_dynamic_table", "unregister_dataset_api", "delete">>
        /\ \A i \in 1..Len(resp.trail) :
               /\ ~resp.trail[i].record => ~resp.trail[i].registered
               /\ resp.trail[i].record <=> i < Len(resp.trail)
               /\ resp.trail[i].registered => i = 1

\* C18: a destroy of a dataset whose slug was registered and whose table
\* existed has answered 204
C18_RegisteredDatasetDestroyed ==
    /\ resp.op = "dataset_destroy" /\ resp.status = 204
    /\ Len(resp.trail) = 3
    /\ resp.trail[1].registered /\ ~resp.trail[1].table
    /\ ~resp.trail[3].registered /\ ~resp.trail[3].record

\* C28: after a run of the pipeline that ended in status 'error' the
\* dataset's slug is in neither registry, and its backing table is absent
\* or holds no row of that run.
C28_FailedRunLeavesNothing ==
    run.pc = "raised" =>
        /\ get_api(apiRegistry, run.mem.slug) = NoApi
        /\ ~is_registered(registered, run.mem.slug)
        /\ RowsIn(tables, run.mem.table_name) = run.rows0

\* C28 for the runs in which nothing of the environment failed
C28_WithoutEnvironmentFailure == ~run.injected => C28_FailedRunLeavesNothing

\* C28 for the runs that failed before the table was created
C28_FailedBeforeTable ==
    (run.pc = "raised" /\ run.mem.table_name \notin DOMAIN tables)
        => C28_FailedRunLeavesNothing

\* C3: after DatasetViewSet.destroy answered 204 for a dataset, get_api of
\* its slug is None, is_registered of its slug is false and its backing
\* table does not exist, whether the drop succeeded or failed.
C3_DestroyLeavesNothing ==
    (resp.op = "dataset_destroy" /\ resp.status = 204) =>
        /\ get_api(apiRegistry, resp.slug) = NoApi
        /\ ~is_registered(registered, resp.slug)
        /\ resp.table \notin DOMAIN tables

\* C8: a run of process_uploaded_file on a dataset whose previous run, on
\* the same file, succeeded also succeeds (no failure of the environment in
\* either) and ends with the column descriptors and the row_count the
\* previous run ended with.
C8_SecondRunSame ==
    (/\ run.pc \in {"done", "raised"}
     /\ ~run.injected
     /\ lastRun[run.ds].ok
     /\ lastRun[run.ds].clean) =>
        /\ run.pc = "done"
        /\ datasetColumns[run.ds] = lastRun[run.ds].columns
        /\ datasets[run.ds].row_count = lastRun[run.ds].row_count

\* what the specification calls a validation error of an upload: wrong file
\* type, file too large, more rows or columns than the caps, empty file
IsValidationError(file) ==
    \/ file.size > MAX_UPLOAD_SIZE
    \/ file.mime \notin ALLOWED_MIMES
    \/ file.ext \notin {"csv", "xlsx", "xls"}
    \/ LET df == DropEmpty(file.frame)
       IN  Len(df) > MAX_COLUMNS \/ NumRows(df) > MAX_ROWS \/ NumRows(df) = 0 \/ Len(df) = 0

\* C9: after the response to an upload that is a validation error, the
\* stored Dataset records and their status fields are the ones stored
\* before the request.
C9_RejectedUploadStoresNothing ==
    (resp.op = "upload" /\ IsValidationError(Files[resp.file])) =>
        StoredStatus(datasets) = resp.before

\* the cell can be read as a value of the column's type
ParsesAs(cell, data_type) ==
    CASE data_type \in {"integer", "float"} ->
            cell[1] \in {"int", "float"} \/ NumericOk(StrOf(cell))
      [] data_type = "boolean" ->
            cell[1] = "bool" \/ Strip(Lower(StrOf(cell))) \in boolean_values
      [] data_type \in {"date", "datetime"} -> cell[1] = "ts" \/ DatetimeOk(StrOf(cell))
      [] OTHER -> TRUE

\* C10: when the load step of a run has succeeded, every cell of the parsed
\* file that is absent, or that cannot be read as a value of its column's
\* type, is NULL in the row the step stored for it.
C10_AbsentCellsStoredNull ==
    run.pc = "generate" =>
        LET t == tables[run.mem.table_name]
            n == NumRows(run.df)
            first == Len(t.rows) - n
        IN  \A c \in 1..Len(run.df), r \in 1..n :
                (IsNA(run.df[c].values[r])
                    \/ ~ParsesAs(run.df[c].values[r], run.schema[c].data_type))
                => t.rows[first + r].vals[c] = SqlNull


-----------------------------------------------------------------------------
(* Study of sanitize_field_name on single labels.  A label is a run of     *)
(* 'a' followed by an enumerated tail, so that labels around the           *)
(* truncation limit are among the inputs.                                  *)

LabelAlphabet == {"a", "D", "i", "1", "_", " ", "$"}

PadLengths == {0} \cup ((TRUNCATE_LEN - MaxLabelLen)..TRUNCATE_LEN)

SanitizeInputs ==
    {Repeat("a", n) \o t : n \in PadLengths, t \in StringsUpTo(LabelAlphabet, MaxLabelLen)}

\* the examples of the docstring of sanitize_field_name: <<label, name>>
SanitizeExamples == {
    <<<<"P","r","o","d","u","c","t"," ","N","a","m","e">>,
      <<"p","r","o","d","u","c","t","_","n","a","m","e">>>>,
    <<<<"P","r","i","c","e"," ","(","$",")">>,
      <<"p","r","i","c","e">>>>,
    <<<<"c","l","a","s","s">>,
      <<"f","i","e","l","d","_","c","l","a","s","s">>>>,
    <<<<"1","s","t","_","p","l","a","c","e">>,
      <<"c","o","l","_","1","s","t","_","p","l","a","c","e">>>> }

ExampleLabels == {e[1] : e \in SanitizeExamples}

SanInit == pin \in SanitizeInputs \cup ExampleLabels /\ pout = <<>> /\ KeysEmpty /\ MainEmpty

SanitizeOnce == /\ pout = <<>>
                /\ pout' = <<sanitize_field_name(pin)>>
                /\ UNCHANGED <<pin, keyVars, mainVars>>

SanitizeAgain == /\ Len(pout) = 1
                 /\ pout' = Append(pout, sanitize_field_name(pout[1]))
                 /\ UNCHANGED <<pin, keyVars, mainVars>>

SanNext == SanitizeOnce \/ SanitizeAgain

SpecSanitize == SanInit /\ [][SanNext]_vars

\* C23: the name sanitize_field_name returns is not empty, has at most 63
\* characters, all of them in [a-z0-9_], does not start with a digit and
\* is not a reserved word; the examples give the stated names.
C23_SafeIdentifier ==
    Len(pout) >= 1 =>
        /\ pout[1] # <<>>
        /\ Len(pout[1]) <= 63
        /\ Range(pout[1]) \subseteq NameChars
        /\ pout[1][1] \notin Range(DigitChars)
        /\ pout[1] \notin RESERVED_WORDS
        /\ \A e \in SanitizeExamples : pin = e[1] => pout[1] = e[2]

\* C23: a label that sanitizes to a reserved word has been given its prefix
C23_ReservedLabelSanitized ==
    /\ Len(pout) >= 1
    /\ Lower(Strip(pin)) \in {<<"i","d">>, <<"c","l","a","s","s">>}
    /\ pout[1] \in {<<"f","i","e","l","d","_","i","d">>,
                    <<"f","i","e","l","d","_","c","l","a","s","s">>}

\* C5: sanitize_field_name is idempotent: sanitizing a sanitized name
\* gives the same name again.
C5_Idempotent == Len(pout) = 2 => pout[2] = pout[1]

-----------------------------------------------------------------------------
(* Study of the field names of one file's columns.                         *)

LabelSamples == {
    <<"a">>, <<"A">>, <<" ","a">>, <<"a","_","1">>, <<"a"," ","$">>,
    <<"i","d">>, <<"1">>, <<" ">> }

LabelLists == UNION {[1..k -> LabelSamples] : k \in 1..MaxCols}

LabelsInit == pin \in LabelLists /\ pout = <<>> /\ KeysEmpty /\ MainEmpty

ParseLabels == /\ pout = <<>>
               /\ pout' = <<validate_dataframe_columns(pin)>>
               /\ UNCHANGED <<pin, keyVars, mainVars>>

DetectNames == /\ Len(pout) = 1
               /\ pout' = Append(pout, schema_field_names(pout[1]))
               /\ UNCHANGED <<pin, keyVars, mainVars>>

LabelsNext == ParseLabels \/ DetectNames

SpecLabels == LabelsInit /\ [][LabelsNext]_vars

Distinct(s) == \A i, j \in 1..Len(s) : i # j => s[i] # s[j]

\* C4: the field names of the schema of one file are pairwise distinct,
\* whatever the source labels are.
C4_FieldNamesDistinct == Len(pout) = 2 => Distinct(pout[2])

-----------------------------------------------------------------------------
(* Study of infer_field_type on object columns: a run of one token         *)
(* followed by a few more tokens.                                          *)

InferTokens == {TOK_TRUE, TOK_ONE, TOK_SEVEN, TOK_FRAC, TOK_YMD, TOK_DATE,
                TOK_DTIME, TOK_ABC}

InferInputs ==
    {Repeat(major, n) \o minor :
        major \in InferTokens, n \in 0..MaxRun,
        minor \in UNION {[1..k -> InferTokens] : k \in 0..MaxMinor}} \ {<<>>}

InferInit == pin \in InferInputs /\ pout = <<>> /\ KeysEmpty /\ MainEmpty

InferType == /\ pout = <<>>
             /\ pout' = <<infer_field_type(pin, "object")>>
             /\ UNCHANGED <<pin, keyVars, mainVars>>

InferNext == InferType

SpecInfer == InferInit /\ [][InferNext]_vars

\* the type the first accepting detector gives when the detectors are taken
\* in the order boolean, integer, float, date-only, date-time, text
FirstInStatedOrder(series) ==
    IF is_boolean_column(series) THEN "boolean"
    ELSE IF is_integer_column(series) THEN "integer"
    ELSE IF is_float_column(series) THEN "float"
    ELSE IF is_date_column(series) THEN "date"
    ELSE IF is_datetime_column(series) THEN "datetime"
    ELSE "text"

\* C6: infer_field_type gives an object column the type of the first
\* detector, in the order boolean, integer, float, date-only, date-time,
\* text, that accepts it.
C6_StatedPriority == Len(pout) = 1 => pout[1][2] = FirstInStatedOrder(pin)

-----------------------------------------------------------------------------
(* Study of the query parameters of DynamicViewSet.list: what the handler  *)
(* makes of them after the ownership check (lines 164-173) and the SQL     *)
(* query_table builds from what it is given (lines 206-232).  A request    *)
(* carries a set of filter parameters and an ordering parameter; a         *)
(* statement is [select, where, order].                                    *)

F_ID == <<"i","d">>
F_OTHER == <<"z">>

\* the field names a request may name: the file's, id and one of no column
ParamNames == {<<"n">>, <<"s">>, F_ID, F_OTHER}

NoOrdering == <<>>

\* the ordering parameters: absent, a name, a name after '-'
OrderingSamples == {NoOrdering} \cup ParamNames \cup {<<"-">> \o f : f \in ParamNames}

\* filters = {col.field_name: ... for col in columns if col.field_name in
\* request.query_params}; order_by = request.query_params.get('ordering')
ListArgs(items, params, ordering) ==
    [filters |-> {items[c].field_name : c \in 1..Len(items)} \cap params,
     order_by |-> ordering]

\* the field an ORDER BY clause names
OrderField(order_by) ==
    IF StartsWith(order_by, <<"-">>) THEN SubSeq(order_by, 2, Len(order_by)) ELSE order_by

\* the statement query_table builds
QuerySql(cols, filters, order_by) ==
    IF ~Subscriptable(cols) THEN [raised |-> "TypeError", select |-> <<>>, where |-> {},
                                  order |-> <<>>]
    ELSE [raised |-> "",
          select |-> <<F_ID>> \o FieldNames(cols.items),
          where |-> filters,
          order |-> IF order_by = NoOrdering THEN <<>>
                    ELSE <<OrderField(order_by),
                           IF StartsWith(order_by, <<"-">>) THEN "DESC" ELSE "ASC">>]

\* the columns a view set may hold: the descriptors of the dataset as
\* DatasetColumn instances (what generate_api passes) or as dicts (what
\* query_table subscripts)
ListColumns ==
    {[kind |-> k, items |-> detect_schema(ParseFile(F_people).df)] :
        k \in {"DatasetColumn", "dict"}}

ListInputs ==
    {[columns |-> c, params |-> p, ordering |-> o] :
        c \in ListColumns, p \in SUBSET ParamNames, o \in OrderingSamples}

ListInit == pin \in ListInputs /\ pout = <<>> /\ KeysEmpty /\ MainEmpty

\* the handler up to the call of query_table: no parameter is refused
ListReadParams ==
    /\ pout = <<>>
    /\ pout' = <<[rejected |-> FALSE,
                  args |-> ListArgs(pin.columns.items, pin.params, pin.ordering)]>>
    /\ UNCHANGED <<pin, keyVars, mainVars>>

ListQuery ==
    /\ Len(pout) = 1
    /\ ~pout[1].rejected
    /\ pout' = Append(pout, QuerySql(pin.columns, pout[1].args.filters, pout[1].args.order_by))
    /\ UNCHANGED <<pin, keyVars, mainVars>>

ListNext == ListReadParams \/ ListQuery

SpecList == ListInit /\ [][ListNext]_vars

\* the fields of the descriptor set, plus id
Described(items) == {items[c].field_name : c \in 1..Len(items)} \cup {F_ID}

\* the fields a request names that are outside the descriptor set
Foreign(input) ==
    (input.params \cup (IF input.ordering = NoOrdering THEN {}
                        ELSE {OrderField(input.ordering)}))
    \ Described(input.columns.items)

\* C11: a list request that names, as a filter or as the ordering, a field
\* outside the dataset's column descriptors (plus id) is rejected by the
\* handler: the field is not dropped from the filters while the request
\* goes on, and it does not reach the statement query_table builds.
C11_ForeignFieldRejected ==
    (Len(pout) >= 1 /\ Foreign(pin) # {}) =>
        /\ pout[1].rejected
        /\ Len(pout) = 2 =>
              /\ pout[2].where \subseteq Described(pin.columns.items)
              /\ pout[2].order # <<>> => pout[2].order[1] \in Described(pin.columns.items)

-----------------------------------------------------------------------------
(* Study of the registries under concurrent callers.  The module holds no  *)
(* lock (router.py lines 10-13, api_generator.py line 21): a thread runs   *)
(* generate_api and register_dataset_api, unregister_dataset_api or        *)
(* is_registered, one statement at a time, and the threads interleave      *)
(* between statements.  pin maps a thread to its call in progress.         *)

MaxThreads == 2     \* threads of the server process
MaxCalls == 2       \* calls one thread makes

Threads == 1..MaxThreads

RegSlugs == {<<"a">>, <<"b">>}

RegOps == {"register", "unregister", "lookup"}

NoCall == [pc |-> "idle", op |-> "none", slug |-> NoText, calls |-> 0, seen |-> FALSE,
           routed |-> FALSE, raised |-> FALSE]

restVars == <<nextId, datasets, datasetColumns, tables, run, resp, lastRun, faults>>

\* the dataset a thread registers: the one stored under the slug
RegDataset(slug) == [NoDataset EXCEPT !.id = 1, !.slug = slug, !.status = "ready"]

RegInit == pin = [t \in Threads |-> NoCall] /\ pout = <<>> /\ KeysEmpty /\ MainEmpty

RegStep(t, call) == pin' = [pin EXCEPT ![t] = call] /\ UNCHANGED <<pout, keyVars, restVars>>

\* a thread enters one of the functions
RegCall(t) ==
    /\ pin[t].pc = "idle"
    /\ pin[t].calls < MaxCalls
    /\ \E op \in RegOps, slug \in RegSlugs :
          RegStep(t, [NoCall EXCEPT !.pc = IF op = "register" THEN "generate" ELSE "check",
                                    !.op = op, !.slug = slug, !.calls = pin[t].calls + 1])
    /\ UNCHANGED regVars

\* generate_api: _API_REGISTRY[dataset.slug] = (viewset_class, serializer_class)
RegGenerate(t) ==
    /\ pin[t].pc = "generate"
    /\ apiRegistry' = (pin[t].slug :> ViewSetFor(RegDataset(pin[t].slug), <<>>,
                                                 MaxCalls * (t - 1) + pin[t].calls))
                      @@ apiRegistry
    /\ RegStep(t, [pin[t] EXCEPT !.pc = "check"])
    /\ UNCHANGED <<registered, routes>>

\* register_dataset_api: if dataset.slug in _registered_datasets: return
RegCheck(t) ==
    /\ pin[t].pc = "check" /\ pin[t].op = "register"
    /\ RegStep(t, [pin[t] EXCEPT !.pc = IF pin[t].slug \in registered THEN "idle" ELSE "route"])
    /\ UNCHANGED regVars

\* register_dataset_api: dynamic_router.register(...)
RegRoute(t) ==
    /\ pin[t].pc = "route"
    /\ \E checks \in BOOLEAN :
          IF HasRoute(pin[t].slug) /\ checks
          THEN RegStep(t, [pin[t] EXCEPT !.pc = "idle", !.raised = TRUE]) /\ UNCHANGED routes
          ELSE /\ routes' = Append(routes, apiRegistry[pin[t].slug])
               /\ RegStep(t, [pin[t] EXCEPT !.pc = "add", !.routed = TRUE])
    /\ UNCHANGED <<apiRegistry, registered>>

\* register_dataset_api: _registered_datasets.add(dataset.slug)
RegAdd(t) ==
    /\ pin[t].pc = "add"
    /\ registered' = registered \cup {pin[t].slug}
    /\ RegStep(t, [pin[t] EXCEPT !.pc = "idle"])
    /\ UNCHANGED <<apiRegistry, routes>>

\* unregister_dataset_api: if slug in _registered_datasets
UnregCheck(t) ==
    /\ pin[t].pc = "check" /\ pin[t].op = "unregister"
    /\ RegStep(t, [pin[t] EXCEPT !.pc = IF pin[t].slug \in registered THEN "remove" ELSE "idle"])
    /\ UNCHANGED regVars

\* unregister_dataset_api: _registered_datasets.remove(slug), KeyError when
\* the slug has gone meanwhile
UnregRemove(t) ==
    /\ pin[t].pc = "remove"
    /\ registered' = unregister_dataset_api(registered, pin[t].slug)
    /\ RegStep(t, [pin[t] EXCEPT !.pc = "idle", !.raised = pin[t].slug \notin registered])
    /\ UNCHANGED <<apiRegistry, routes>>

\* is_registered, with what the router holds at that moment
RegLookup(t) ==
    /\ pin[t].pc = "check" /\ pin[t].op = "lookup"
    /\ RegStep(t, [pin[t] EXCEPT !.pc = "idle", !.seen = is_registered(registered, pin[t].slug),
                                 !.routed = HasRoute(pin[t].slug)])
    /\ UNCHANGED regVars

RegNext ==
    \E t \in Threads :
        \/ RegCall(t)
        \/ RegGenerate(t)
        \/ RegCheck(t)
        \/ RegRoute(t)
        \/ RegAdd(t)
        \/ UnregCheck(t)
        \/ UnregRemove(t)
        \/ RegLookup(t)

SpecRegistry == RegInit /\ [][RegNext]_vars

RoutesOf(slug) == {i \in 1..Len(routes) : routes[i].slug = slug}

\* C13: registry writes are mutually exclusive.  However the calls of the
\* threads interleave, the router holds at most one route of a slug and no
\* call fails; a lookup never sees the set of registered slugs disagree
\* with the router, and when no call is in progress the slugs registered
\* are the slugs that have a route.
C13_RegistryWritesExclusive ==
    /\ \A s \in RegSlugs : Cardinality(RoutesOf(s)) <= 1
    /\ \A t \in Threads : ~pin[t].raised
    /\ \A t \in Threads :
          (pin[t].op = "lookup" /\ pin[t].pc = "idle") => pin[t].seen = pin[t].routed
    /\ (\A t \in Threads : pin[t].pc = "idle") =>
          \A s \in RegSlugs : is_registered(registered, s) <=> HasRoute(s)

-----------------------------------------------------------------------------
(* Study of engine/loader.py: load_existing_datasets in a process that has *)
(* just started, so the registries are empty, over a store of datasets in  *)
(* any status.  pin is the call: [pc, todo, failed].                       *)

MaxStored == 3      \* datasets in the store at process start

StoredSlugs == [i \in 1..MaxStored |-> <<LowerChars[i]>>]

StatusValues == {"processing", "ready", "error"}

\* the stored dataset i in the given status
StoredDataset(i, status) ==
    [NoDataset EXCEPT !.id = i, !.slug = StoredSlugs[i], !.table_name = TableNameOf(i),
                      !.status = status, !.api_key = 1]

LoadSteps == {"none", "generate_api", "register_dataset_api"}

loadRest == <<pout, keyVars, nextId, tables, run, resp, lastRun>>

LoadInit ==
    /\ pout = <<>> /\ KeysEmpty
    /\ nextId = MaxStored + 1
    /\ \E st \in [1..MaxStored -> StatusValues] :
          datasets = [i \in 1..MaxStored |-> StoredDataset(i, st[i])]
    /\ datasetColumns = [i \in 1..MaxStored |-> <<>>]
    /\ tables = <<>> /\ apiRegistry = <<>> /\ registered = {} /\ routes = <<>>
    /\ run = Idle /\ resp = NoResp /\ lastRun = <<>> /\ faults = 0
    /\ pin = [pc |-> "query", todo |-> {}, failed |-> {}]

\* Dataset.objects.filter(status='ready'); an exception here is caught by
\* the outer except clause and the function returns
LoadQuery ==
    /\ pin.pc = "query"
    /\ \E inj \in InjectChoices :
          /\ faults' = IF inj THEN faults + 1 ELSE faults
          /\ pin' = IF inj THEN [pin EXCEPT !.pc = "returned"]
                    ELSE [pin EXCEPT !.pc = "loop",
                                     !.todo = {d \in DOMAIN datasets :
                                                  datasets[d].status = "ready"}]
    /\ UNCHANGED <<loadRest, datasets, datasetColumns, regVars>>

\* the body of the loop for one dataset: generate_api, then
\* register_dataset_api; an exception of either is caught and logged
LoadOne ==
    /\ pin.pc = "loop"
    /\ \E d \in pin.todo, at \in (IF faults < MaxFaults THEN LoadSteps ELSE {"none"}) :
          \E vs \in {ViewSetFor(datasets[d], datasetColumns[d], 1)} :
             /\ faults' = IF at = "none" THEN faults ELSE faults + 1
             /\ apiRegistry' = IF at = "generate_api" THEN apiRegistry
                               ELSE (datasets[d].slug :> vs) @@ apiRegistry
             /\ IF at = "none" /\ datasets[d].slug \notin registered
                THEN /\ routes' = Append(routes, vs)
                     /\ registered' = registered \cup {datasets[d].slug}
                ELSE UNCHANGED <<routes, registered>>
             /\ pin' = [pin EXCEPT !.todo = @ \ {d},
                                   !.failed = IF at = "none" THEN @ ELSE @ \cup {d}]
    /\ UNCHANGED <<loadRest, datasets, datasetColumns>>

LoadReturn ==
    /\ pin.pc = "loop"
    /\ pin.todo = {}
    /\ pin' = [pin EXCEPT !.pc = "returned"]
    /\ UNCHANGED <<loadRest, datasets, datasetColumns, regVars, faults>>

LoadNext == LoadQuery \/ LoadOne \/ LoadReturn

SpecLoader == LoadInit /\ [][LoadNext]_vars

\* C17: when load_existing_datasets returns, the slug of every dataset
\* whose status is 'ready' is registered, in whatever order the datasets
\* were loaded and whatever failed on the way.
C17_ReadyDatasetsRegistered ==
    pin.pc = "returned" =>
        \A d \in DOMAIN datasets :
            datasets[d].status = "ready" => is_registered(registered, datasets[d].slug)

-----------------------------------------------------------------------------
(* Study of detect_schema on one column as pandas hands it over: the       *)
(* cells of a column are of one kind, and the kind fixes the dtype.        *)

MaxCells == 3       \* cells of a column

ColumnCells ==
    [object  |-> {StrCell(TOK_TRUE), StrCell(TOK_YES_U), StrCell(TOK_ONE),
                  StrCell(TOK_SEVEN), StrCell(TOK_ABC), NAcell},
     int64   |-> {IntCell(0), IntCell(1), IntCell(7)},
     float64 |-> {<<"float", 0, <<>>>>, <<"float", 1, <<>>>>, <<"float", 2, <<"5">>>>, NAcell},
     bool    |-> {<<"bool", TRUE>>, <<"bool", FALSE>>}]

ColumnInputs ==
    UNION {{Col(<<"c">>, dt, vals) :
               vals \in UNION {[1..n -> ColumnCells[dt]] : n \in 1..MaxCells}} :
           dt \in DOMAIN ColumnCells}

ColumnInit == pin \in ColumnInputs /\ pout = <<>> /\ KeysEmpty /\ MainEmpty

DetectColumn == /\ pout = <<>>
                /\ pout' = <<detect_schema(<<pin>>)[1]>>
                /\ UNCHANGED <<pin, keyVars, mainVars>>

ColumnNext == DetectColumn

SpecColumn == ColumnInit /\ [][ColumnNext]_vars

\* the vocabulary as the values compare after trimming and lowering
StatedVocabulary ==
    {<<"t","r","u","e">>, <<"f","a","l","s","e">>, <<"y","e","s">>, <<"n","o">>,
     <<"1">>, <<"0">>, <<"t">>, <<"f">>, <<"y">>, <<"n">>,
     <<"1",".","0">>, <<"0",".","0">>}

InVocabulary(cell) == Strip(Lower(StrOf(cell))) \in StatedVocabulary

\* C19: a column with a non-null value is inferred as boolean when every
\* non-null value, trimmed and lowered, is in the boolean vocabulary, and
\* is not inferred as boolean when one of them is outside it.
C19_BooleanVocabulary ==
    (Len(pout) = 1 /\ NonNull(pin.values) # <<>>) =>
        LET present == NonNull(pin.values)
        IN  /\ (\A i \in 1..Len(present) : InVocabulary(present[i]))
                  => pout[1].data_type = "boolean"
            /\ (\E i \in 1..Len(present) : ~InVocabulary(present[i]))
                  => pout[1].data_type # "boolean"

\* C19 restricted to columns of dtype object, the ones the detectors see
C19_ObjectColumns == pin.dtype = "object" => C19_BooleanVocabulary

\* the rate of the values of an object column that parse as numbers is at
\* least 95%
MostlyNumeric(series) == CountNumeric(series) * 100 >= 95 * Len(series)

WholeNumbers(series) ==
    \A i \in 1..Len(series) : NumericOk(series[i]) => ToNumeric(series[i]).fraczero

\* C20: an object column that is not boolean and of which at least 95% of
\* the values parse as numbers is inferred as integer when every parsed
\* value is whole and as float otherwise; when fewer parse the column is
\* neither integer nor float.
C20_IntegerOrFloat ==
    (Len(pout) = 1 /\ ~is_boolean_column(pin)) =>
        IF MostlyNumeric(pin)
        THEN pout[1][2] = (IF WholeNumbers(pin) THEN "integer" ELSE "float")
        ELSE pout[1][2] \notin {"integer", "float"}

\* C20 for the columns no value of which parses as a date
C20_NoDates ==
    (\A i \in 1..Len(pin) : ~DatetimeOk(pin[i])) => C20_IntegerOrFloat

\* the number of values of the series that parse as a date-time at midnight
CountMidnight(series) ==
    Cardinality({i \in 1..Len(series) :
                    DatetimeOk(series[i]) /\ ToDatetime(series[i]).midnight})

\* C21: an object column of which at least 90% of the values parse as
\* date-times is inferred as date when at least 95% of the parsed values
\* are at midnight, and as datetime when fewer are.
C21_DateOrDatetime ==
    (Len(pout) = 1 /\ CountDatetime(pin) * 100 >= 90 * Len(pin)) =>
        pout[1][2] = (IF CountMidnight(pin) * 100 >= 95 * CountDatetime(pin)
                      THEN "date" ELSE "datetime")

\* C21 for the columns with fewer than 95% of the parsed values at midnight
C21_DatetimeHalf ==
    CountMidnight(pin) * 100 < 95 * CountDatetime(pin) => C21_DateOrDatetime

\* C22: detect_schema reports a column unique exactly when the file has at
\* most 10,000 rows and the distinct non-null values of the column are as
\* many as its non-null values, a column without a non-null value included.
C22_UniqueFlag ==
    Len(pout) = 1 =>
        (pout[1].unique <=>
            /\ Len(pin.values) <= 10000
            /\ Cardinality(Range(NonNull(pin.values))) = Len(NonNull(pin.values)))

\* C22 for the columns that have a non-null value
C22_ColumnsWithValues == NonNull(pin.values) # <<>> => C22_UniqueFlag

-----------------------------------------------------------------------------
(* Study of engine/table_builder.py: create_dynamic_table, bulk_insert and *)
(* drop_dynamic_table called in any order on a few table names with a few  *)
(* column lists.  pin counts the calls, pout is the outcome of the last.   *)

MaxTableCalls == 4      \* calls of the table functions in a behaviour

TableNames == {TableNameOf(1), TableNameOf(2)}

\* schemas of files, no column, and two columns of one name
ColumnLists ==
    {detect_schema(ParseFile(F_people).df), detect_schema(ParseFile(F_flags).df),
     <<>>, detect_schema(F_clash.frame)}

TableFrames == {ParseFile(F_people).df, ParseFile(F_flags).df}

NoCallYet == [op |-> "none", name |-> NoText, existed |-> FALSE, ok |-> TRUE,
              columns |-> <<>>]

TableInit ==
    /\ pin = 0 /\ pout = NoCallYet
    /\ KeysEmpty /\ MainEmpty

TableCalled(op, name, ok, columns) ==
    /\ pin < MaxTableCalls
    /\ pin' = pin + 1
    /\ pout' = [op |-> op, name |-> name, existed |-> name \in DOMAIN tables, ok |-> ok,
                columns |-> columns]

TableRest == <<keyVars, nextId, datasets, datasetColumns, apiRegistry, registered, routes,
               run, resp, lastRun, faults>>

TableCreate ==
    /\ \E name \in TableNames, columns \in ColumnLists :
          \E r \in {create_dynamic_table(tables, name, columns)} :
             /\ tables' = r.tables
             /\ TableCalled("create_dynamic_table", name, r.ok, columns)
    /\ UNCHANGED TableRest

TableLoad ==
    /\ \E name \in TableNames, df \in TableFrames :
          \E columns \in {detect_schema(df)} :
          \E r \in {bulk_insert(tables, name, columns, convert_dataframe_types(df, columns))} :
             /\ tables' = r.tables
             /\ TableCalled("bulk_insert", name, r.ok, columns)
    /\ UNCHANGED TableRest

TableDrop ==
    /\ \E name \in TableNames :
          /\ tables' = drop_dynamic_table(tables, name)
          /\ TableCalled("drop_dynamic_table", name, TRUE, <<>>)
    /\ UNCHANGED TableRest

TableNext == TableCreate \/ TableLoad \/ TableDrop

SpecTable == TableInit /\ [][TableNext]_vars

\* C24: create_dynamic_table for a name that exists raises nothing and
\* leaves every table as it is, whatever columns it is given;
\* drop_dynamic_table for a name that does not exist raises nothing.
C24_ExistingTableUntouched ==
    [][/\ (pout'.op = "create_dynamic_table" /\ pout'.name \in DOMAIN tables)
            => (pout'.ok /\ tables' = tables)
       /\ (pout'.op = "drop_dynamic_table" /\ pout'.name \notin DOMAIN tables)
            => (pout'.ok /\ tables' = tables)]_vars

\* C24: create_dynamic_table was called with other columns for a table that
\* holds rows
C24_CreatedOverLoadedTable ==
    /\ pout.op = "create_dynamic_table" /\ pout.existed /\ pout.ok
    /\ pout.name \in DOMAIN tables
    /\ tables[pout.name].rows # <<>>
    /\ ColumnDefs(pout.columns) # tables[pout.name].cols

-----------------------------------------------------------------------------
(* Study of insert_row followed by get_single_row on a table of two        *)
(* fields.  pin is [columns, data]: the column definitions as dicts and    *)
(* the value of each field; pout collects what the two calls return.       *)

RowTypes ==
    [boolean |-> "BooleanField", integer |-> "IntegerField", float |-> "FloatField",
     date |-> "DateField", datetime |-> "DateTimeField", text |-> "TextField"]

RowFieldNames == <<<<"p">>, <<"q">>>>

\* the descriptor of field i with the given type
RowColumn(i, data_type) ==
    [name |-> RowFieldNames[i], field_name |-> RowFieldNames[i],
     field_type |-> RowTypes[data_type], data_type |-> data_type, nullable |-> TRUE,
     unique |-> FALSE, max_length |-> 0, sample_values |-> <<>>, position |-> i - 1]

\* the values a caller may pass for a field
RowValues ==
    {StrCell(TOK_TRUE), StrCell(TOK_YES_U), StrCell(TOK_ONE), StrCell(TOK_FRAC),
     StrCell(TOK_DATE), StrCell(TOK_DTIME), StrCell(TOK_ABC), IntCell(7),
     <<"bool", TRUE>>, <<"float", 2, <<"5">>>>,
     <<"ts", ToDatetime(TOK_DTIME).iso>>}

RowTable == TableNameOf(1)

RowInputs ==
    {[columns |-> [kind |-> "dict", items |-> <<RowColumn(1, t1), RowColumn(2, t2)>>],
      data |-> <<v1, v2>>] :
        t1 \in DOMAIN RowTypes, t2 \in DOMAIN RowTypes, v1 \in RowValues, v2 \in RowValues}

RowRest == <<keyVars, nextId, datasets, datasetColumns, apiRegistry, registered, routes,
             run, resp, lastRun, faults>>

RowInit ==
    /\ pin \in RowInputs /\ pout = <<>>
    /\ KeysEmpty
    /\ nextId = 1 /\ datasets = <<>> /\ datasetColumns = <<>>
    /\ tables = create_dynamic_table(<<>>, RowTable, pin.columns.items).tables
    /\ apiRegistry = <<>> /\ registered = {} /\ routes = <<>>
    /\ run = Idle /\ resp = NoResp /\ lastRun = <<>> /\ faults = 0

RowInsert ==
    /\ pout = <<>>
    /\ \E r \in {insert_row(tables, RowTable, pin.columns, pin.data)} :
          /\ tables' = r.tables
          /\ pout' = <<[ok |-> r.ok, id |-> r.id]>>
    /\ UNCHANGED <<pin, RowRest>>

RowGet ==
    /\ Len(pout) = 1 /\ pout[1].ok
    /\ pout' = Append(pout, get_single_row(tables, RowTable, pin.columns, pout[1].id).row)
    /\ UNCHANGED <<pin, tables, RowRest>>

RowNext == RowInsert \/ RowGet

SpecRow == RowInit /\ [][RowNext]_vars

\* the ISO-8601 texts of a date or date-time value: the full form, and the
\* date alone for a value at midnight
IsoTexts(value) ==
    LET iso == IF value[1] = "ts" THEN value[2] ELSE ToDatetime(StrOf(value)).iso
    IN  {<<"text", iso>>}
        \cup (IF SubSeq(iso, 11, 19) = <<"T","0","0",":","0","0",":","0","0">>
              THEN {<<"text", SubSeq(iso, 1, 10)>>} ELSE {})

\* the stored values that are the value under the coercion of the type
StatedCoercions(value, data_type) ==
    CASE data_type = "boolean" ->
            {<<"int", IF (value[1] = "bool" /\ value[2])
                         \/ (value[1] # "bool" /\ Strip(Lower(StrOf(value))) \in TRUTHY)
                      THEN 1 ELSE 0>>}
      [] data_type = "integer" -> {<<"int", NumericCell(value)[2]>>}
      [] data_type = "float" ->
            {LET n == NumericCell(value)
             IN  <<"real", n[2], IF n[1] = "int" THEN <<>> ELSE n[3]>>}
      [] data_type \in {"date", "datetime"} -> IsoTexts(value)
      [] OTHER -> {<<"text", StrOf(value)>>}

\* C25: the row get_single_row returns for the id insert_row returned has
\* that id and, for every field whose value can be read as a value of the
\* field's type, the value under the coercion of the type: 0/1, the
\* integer, the float, the ISO-8601 text, the string.
C25_RowRoundTrip ==
    Len(pout) = 2 =>
        /\ pout[2] # NoRow
        /\ pout[2].id = pout[1].id
        /\ \A c \in 1..Len(pin.data) :
              ParsesAs(pin.data[c], pin.columns.items[c].data_type)
                  => pout[2].fields[c]
                        \in StatedCoercions(pin.data[c], pin.columns.items[c].data_type)

\* C25 for the rows whose date and date-time fields are given as timestamps
\* or as ISO-8601 texts
C25_IsoDatesGiven ==
    (\A c \in 1..Len(pin.data) :
        (pin.columns.items[c].data_type \in {"date", "datetime"}
            /\ ParsesAs(pin.data[c], pin.columns.items[c].data_type))
        => pin.data[c] \in {<<"ts", ToDatetime(TOK_DTIME).iso>>, StrCell(TOK_DATE)})
    => C25_RowRoundTrip

-----------------------------------------------------------------------------
(* Study of Dataset.save (core/models.py) under concurrent requests: each  *)
(* thread runs the body of save up to super().save(), then the write.      *)
(* pin holds, per thread, the object between the two; pout counts the      *)
(* calls and keeps the last exception.  The slug column is unique, the     *)
(* table_name column is not.                                               *)

MaxSaves == 4       \* calls of Dataset.save in a behaviour

\* uuid4 values: two for every value of the first 8 hex digits
Uuids == 1..(2 * ShortIds)

\* a name with a letter and a name slugify leaves nothing of
SaveNames == {<<"A","!">>, <<"!">>}

SaveRest == <<keyVars, nextId, datasetColumns, tables, apiRegistry, registered, routes,
              run, resp, lastRun, faults>>

SaveInit ==
    /\ pin = [t \in Threads |-> NoDataset]
    /\ pout = [calls |-> 0, exc |-> ""]
    /\ KeysEmpty /\ MainEmpty

\* the body of save before super().save(), for a new object
\* (Dataset.objects.create) or for a stored one that is saved again
SaveDerive(t) ==
    /\ pin[t] = NoDataset
    /\ pout.calls < MaxSaves
    /\ \E obj \in {NewDataset(id, name, 1, 1) :
                      id \in Uuids \ (DOMAIN datasets \cup {pin[u].id : u \in Threads}),
                      name \in SaveNames}
                  \cup {[datasets[d] EXCEPT !.status = "ready"] : d \in DOMAIN datasets} :
          pin' = [pin EXCEPT ![t] = DatasetSave(datasets, obj).obj]
    /\ pout' = [pout EXCEPT !.calls = @ + 1]
    /\ UNCHANGED <<datasets, SaveRest>>

\* super().save(): the row is written unless another row has the slug
SaveWrite(t) ==
    /\ pin[t] # NoDataset
    /\ IF \E d \in DOMAIN datasets \ {pin[t].id} : datasets[d].slug = pin[t].slug
       THEN /\ pout' = [pout EXCEPT !.exc = "IntegrityError"]
            /\ UNCHANGED datasets
       ELSE /\ datasets' = (pin[t].id :> pin[t]) @@ datasets
            /\ pout' = [pout EXCEPT !.exc = ""]
    /\ pin' = [pin EXCEPT ![t] = NoDataset]
    /\ UNCHANGED SaveRest

SaveNext == \E t \in Threads : SaveDerive(t) \/ SaveWrite(t)

SpecSave == SaveInit /\ [][SaveNext]_vars

\* C26: any two stored datasets have different table names.
C26_TableNamesDistinct ==
    \A d, e \in DOMAIN datasets : d # e => datasets[d].table_name # datasets[e].table_name

\* C27: no two stored datasets share a slug, concurrent saves included, and
\* a save of a stored dataset changes neither its slug nor its table_name.
C27_SlugsUniqueAndFixed ==
    [][/\ \A d, e \in DOMAIN datasets' : d # e => datasets'[d].slug # datasets'[e].slug
       /\ \A d \in DOMAIN datasets \cap DOMAIN datasets' :
             /\ datasets'[d].slug = datasets[d].slug
             /\ datasets'[d].table_name = datasets[d].table_name]_vars

\* C27 without the datasets whose name slugify leaves nothing of
C27_NamedDatasets ==
    [][(\A d \in DOMAIN datasets' : datasets'[d].name # <<"!">>) =>
        /\ \A d, e \in DOMAIN datasets' : d # e => datasets'[d].slug # datasets'[e].slug
        /\ \A d \in DOMAIN datasets \cap DOMAIN datasets' :
              /\ datasets'[d].slug = datasets[d].slug
              /\ datasets'[d].table_name = datasets[d].table_name]_vars

-----------------------------------------------------------------------------
(* Study of DatasetViewSet.destroy interleaved with requests on the        *)
(* generated endpoint of the same dataset.  The dataset is 'ready': its    *)
(* table is loaded and its slug registered.  pin is the destroy request:   *)
(* the statements it has run and the effects it computed; pout is what     *)
(* the last request on the endpoint met.                                   *)

MaxRequests == 2    \* requests on the endpoint in a behaviour

ReadyFiles == {1, 2}

\* the state process_uploaded_file leaves for dataset 1 with file f
ReadyDataset(f) ==
    [NewDataset(1, <<"A","!">>, f, 1) EXCEPT
        !.slug = <<"a">>, !.table_name = TableNameOf(1), !.status = "ready",
        !.row_count = NumRows(ParseFile(Files[f]).df)]

ReadyTables(f) ==
    LET df == ParseFile(Files[f]).df
        schema == detect_schema(df)
        made == create_dynamic_table(<<>>, TableNameOf(1), schema).tables
    IN  bulk_insert(made, TableNameOf(1), schema, convert_dataframe_types(df, schema)).tables

DeleteRest == <<keyVars, nextId, datasetColumns, apiRegistry, routes, run, resp, lastRun>>

DeleteInit ==
    /\ KeysEmpty /\ nextId = 2
    /\ \E f \in ReadyFiles :
          /\ datasets = (1 :> ReadyDataset(f))
          /\ datasetColumns = (1 :> detect_schema(ParseFile(Files[f]).df))
          /\ tables = ReadyTables(f)
          /\ apiRegistry = (<<"a">> :> ViewSetFor(ReadyDataset(f),
                                                   detect_schema(ParseFile(Files[f]).df), 1))
          /\ routes = <<ViewSetFor(ReadyDataset(f), detect_schema(ParseFile(Files[f]).df), 1)>>
    /\ registered = {<<"a">>}
    /\ run = Idle /\ resp = NoResp /\ lastRun = (1 :> NoRun) /\ faults = 0
    /\ pin = [pc |-> 0, fx |-> <<>>]
    /\ pout = [requests |-> 0, registered |-> FALSE, table |-> FALSE, status |-> 0]

\* the next statement of destroy: the drop, unregister_dataset_api,
\* dataset.delete()
DeleteStep ==
    /\ pin.pc < 3
    /\ \E inj \in (IF pin.pc = 0 THEN InjectChoices ELSE {FALSE}) :
       \E fx \in {IF pin.pc = 0 THEN destroy_effects(tables, registered, datasets, 1, inj)
                  ELSE pin.fx} :
          /\ pin' = [pc |-> pin.pc + 1, fx |-> fx]
          /\ faults' = IF inj THEN faults + 1 ELSE faults
          /\ CASE pin.pc = 0 -> tables' = fx[1].tables /\ UNCHANGED <<registered, datasets>>
               [] pin.pc = 1 -> registered' = fx[2].registered /\ UNCHANGED <<tables, datasets>>
               [] pin.pc = 2 -> datasets' = fx[3].datasets /\ UNCHANGED <<tables, registered>>
    /\ UNCHANGED <<pout, DeleteRest>>

\* a request on the endpoint of the slug, at any point of the destroy
DeleteRequest ==
    /\ pout.requests < MaxRequests
    /\ \E req \in CrudRequests, k \in {NoKey, 1}, session \in BOOLEAN :
          \E vs \in {FirstRoute(<<"a">>)} :
             \E h \in {Dispatch(vs, req, k, session, tables)} :
                /\ tables' = h.tables
                /\ pout' = [requests |-> pout.requests + 1,
                            registered |-> is_registered(registered, vs.slug),
                            table |-> vs.table_name \in DOMAIN tables,
                            status |-> h.status]
    /\ UNCHANGED <<pin, registered, datasets, faults, DeleteRest>>

DeleteNext == DeleteStep \/ DeleteRequest

SpecDelete == DeleteInit /\ [][DeleteNext]_vars

\* C29: while a dataset's slug is registered, or its record is 'ready', its
\* backing table exists; a request that finds the slug registered finds
\* the table.
C29_RegisteredHasTable ==
    /\ \A d \in DOMAIN datasets :
          (is_registered(registered, datasets[d].slug) \/ datasets[d].status = "ready")
              => datasets[d].table_name \in DOMAIN tables
    /\ pout.registered => pout.table


-----------------------------------------------------------------------------
(* Study of slug reuse: dataset 1 of key 1 is 'ready' under the slug 'a';  *)
(* it is deleted, and a second upload of the same name follows, through    *)
(* the steps of the pipeline, with requests on the generated endpoint.     *)

ReuseKeyPrefix == [i \in 1..PrefixLen |-> "0"]
ReuseKeyPart == [i \in 1..KeyPartLen |-> "A"]

ReuseInit ==
    /\ pin = <<>> /\ pout = <<>>
    /\ apiKeys = {NewKeyRecord(1, ReuseKeyPrefix, ReuseKeyPart)}
    /\ issued = {[id |-> 1, full_key |-> FullKey(ReuseKeyPrefix, ReuseKeyPart)]}
    /\ lastAuth = <<>>
    /\ nextId = 2
    /\ \E f \in ReadyFiles :
          /\ datasets = (1 :> ReadyDataset(f))
          /\ datasetColumns = (1 :> detect_schema(ParseFile(Files[f]).df))
          /\ tables = ReadyTables(f)
          /\ apiRegistry = (<<"a">> :> ViewSetFor(ReadyDataset(f),
                                                   detect_schema(ParseFile(Files[f]).df), 1))
          /\ routes = <<ViewSetFor(ReadyDataset(f), detect_schema(ParseFile(Files[f]).df), 1)>>
          /\ lastRun = (1 :> [n |-> 1, ok |-> TRUE, clean |-> TRUE,
                              columns |-> detect_schema(ParseFile(Files[f]).df),
                              row_count |-> NumRows(ParseFile(Files[f]).df)])
    /\ registered = {<<"a">>}
    /\ run = Idle /\ resp = NoResp /\ faults = 0

\* the second upload, of a file the pipeline accepts, with the key of the
\* first or with none
ReuseUpload ==
    /\ run.pc = "idle"
    /\ nextId = 2
    /\ \E f \in ReadyFiles, name \in NameSamples :
          /\ validate_file(Files[f])
          /\ \/ /\ StartUpload(f, name, 1, FALSE)
                /\ UNCHANGED keyVars
             \/ \E prefix \in [1..PrefixLen -> HexSample] :
                   /\ GenerateKey(prefix, ReuseKeyPart)
                   /\ StartUpload(f, name, Cardinality(apiKeys) + 1, TRUE)
    /\ UNCHANGED <<pureVars, tables, regVars, faults>>

ReuseNext ==
    \/ DestroyDataset
    \/ ReuseUpload
    \/ StepParse
    \/ StepDetect
    \/ StepSaveColumns
    \/ StepCreateTable
    \/ StepInsert
    \/ StepGenerateApi
    \/ StepRegister
    \/ StepMarkReady
    \/ ReturnToCreate
    \/ Crud

SpecReuse == ReuseInit /\ [][ReuseNext]_vars

\* the second dataset got the slug of the deleted one, and its run has
\* ended without a failure of the environment
SlugReused ==
    /\ 1 \notin DOMAIN datasets
    /\ 2 \in DOMAIN datasets
    /\ datasets[2].slug = <<"a">>
    /\ lastRun[2].n = 1
    /\ lastRun[2].clean

\* C30: when a new dataset is given the slug of a deleted one, its pipeline
\* succeeds and the slug has exactly one route, the view set of the new
\* dataset: its table name, its column descriptors, its owning key.
C30_SlugReuseSafe ==
    SlugReused =>
        /\ lastRun[2].ok
        /\ datasets[2].status = "ready"
        /\ Cardinality(RoutesOf(<<"a">>)) = 1
        /\ FirstRoute(<<"a">>).dataset = 2
        /\ FirstRoute(<<"a">>).table_name = datasets[2].table_name
        /\ FirstRoute(<<"a">>).columns.items = datasetColumns[2]
        /\ FirstRoute(<<"a">>).owner = datasets[2].api_key

====
